---- MODULE Spec2Model ----
(***************************************************************************)
(* A model of seven parts of happy-dom:                                    *)
(*                                                                         *)
(*  - WindowContextClassExtender / createWindowAwareClass: the Proxy that  *)
(*    injects a window into instances of shared implementation classes.    *)
(*  - Storage: the string-keyed store behind a Proxy with dynamic keys.    *)
(*  - NodeCache, LazyNamedNodeMapData, LazyListenerMap, LazyOptionsMap:    *)
(*    objects whose Maps are created on first access.                      *)
(*  - Cached queries: querySelectorAll and getElementById on a tree whose  *)
(*    nodes own a NodeCache that mutations clear.                          *)
(*  - StringUtility: asciiLowerCase and asciiUpperCase with their two      *)
(*    bounded caches.                                                      *)
(*  - The Jest environment (constructor, fake timers, teardown) and the    *)
(*    ledger of asynchronous tasks of its window.                          *)
(*  - The listener registries of a propagation path and event dispatch.    *)
(***************************************************************************)
EXTENDS Integers, Sequences, FiniteSets, TLC

(***************************************************************************)
(* Bounds of the model.                                                    *)
(***************************************************************************)
MaxDepth == 3
MaxInstances == 3

(***************************************************************************)
(* JavaScript's undefined, as read from a property nobody defines.         *)
(***************************************************************************)
None == "undefined"

(***************************************************************************)
(*                  PART 1: createWindowAwareClass                         *)
(***************************************************************************)

\* Windows for which extendClasses() has been called.
Windows == {"W1", "W2"}

\* Implementation classes handed to createWindowAwareClass by extendClasses().
Classes == {"EventTarget", "Document", "HTMLDocument", "Response"}

\* The third argument of createWindowAwareClass in extendClasses():
\* true for Response and AbortSignal, defaulted to false everywhere else.
setStaticWindow(c) == c \in {"Response"}

\* The wrapped superclass whose prototype is next on the prototype chain of
\* c.prototype (HTMLDocument extends Document extends Node extends
\* EventTarget; Response extends nothing that is wrapped).
Parent(c) ==
  CASE c = "HTMLDocument" -> "Document"
    [] c = "Document" -> "EventTarget"
    [] OTHER -> None

\* proxy: the identity of the Proxy createWindowAwareClass(c, w) returns.
Proxy(c, w) == <<c, w>>

VARIABLES
  proto,      \* proto[c]: own PropertySymbol.window of c.prototype, or None
  stack,      \* construct traps in progress, innermost last
  instances,  \* instances returned by a construct trap, oldest first
  statics,    \* statics[c]: own static PropertySymbol.window of class c, or None
  last,       \* the construct trap that finished most recently
  nested      \* has a construct trap ever begun while another was running

binderVars == <<proto, statics, stack, instances, last, nested>>

\* The state of one Storage object (part 2).
VARIABLES
  data,     \* own properties of this[PropertySymbol.data], as <<name, text>>
            \* entries in the order of Object.keys
  own,      \* own[k]: own property k of the Storage object, or Absent
  written,  \* the name and text of the latest setItem, or NoWrite once
            \* that name was written again, removed, deleted or cleared
  order,    \* the own keys of data in the order in which they were created
  lastTrap  \* the latest step when it was a property write: the name
            \* written and what the set trap returned; NoTrap otherwise

storageVars == <<data, own, written, order, lastTrap>>

\* One object with lazily created Maps: a NodeCache, a LazyNamedNodeMapData,
\* a LazyListenerMap or a LazyOptionsMap.
VARIABLES
  kind,           \* the class of the object
  fields,         \* its private Map fields: null, or a Map with its entries
  computedStyle,  \* NodeCache.computedStyle is not null
  lastCall        \* the latest call on the object, the getters and setters
                  \* it went through and what it found

lazyVars == <<kind, fields, computedStyle, lastCall>>

\* A document, its elements and their caches.
VARIABLES
  children,  \* the child elements of the document and of e1, in order
  ids,       \* the id attribute of each element
  cache,     \* the NodeCache of each node
  lastOp     \* the latest query or mutation

queryVars == <<children, ids, cache, lastOp>>

\* The two conversion caches of StringUtility.
VARIABLES
  lowerCache,     \* ASCII_LOWER_CASE_CACHE: its entries, oldest first
  upperCache,     \* ASCII_UPPER_CASE_CACHE
  lowerUse,       \* the texts held by the lower-case cache in the order of
                  \* their last use, insertion or hit
  upperUse,       \* the same for the upper-case cache
  lastConversion  \* the latest call: which function, and hit, miss or
                  \* miss with eviction

stringVars ==
  <<lowerCache, upperCache, lowerUse, upperUse, lastConversion>>

\* The Jest environment, and the task ledger of its window.
VARIABLES
  envWindow,         \* this.window: the window, null, or not constructed yet
  projectConfig,     \* whether this._projectConfig is set
  isJasmineRunner,   \* what the constructor found on its stack
  legacyFakeTimers,  \* this._legacyFakeTimers
  modernFakeTimers,  \* this._modernFakeTimers
  ownerDocuments,    \* NodeFactory.ownerDocuments.length
  outstanding,       \* the tasks in the ledger of the window
  nodeTimers,        \* the timers armed with the setTimeout of Node
  registered,        \* the number of timers and tasks registered so far
  completed,         \* the tasks that ran to completion
  aborted,           \* whether abort() was called on the window
  wait,              \* the call of waitUntilComplete(): idle, waiting, resolved
  round,             \* the tasks its current drain round waits for
  chained,           \* whether a task registered a successor while it waits
  lastLedger,        \* the latest call: its name, its effects in order, the
                     \* tasks it discarded and the error it raised
  configuredExportConditions,  \* this._configuredExportConditions
  exportOption,      \* testEnvironmentOptions.customExportConditions as given
                     \* to the constructor
  createdLegacy,     \* the LegacyFakeTimers the environment created so far
  createdModern,     \* the ModernFakeTimers it created so far
  suspended          \* the calls of teardown() suspended at "await
                     \* this.window.happyDOM.abort()"

\* The listener registries of the nodes of a propagation path.
VARIABLES
  listenerMap,  \* per node, the LazyListenerMap: capturing and bubbling Maps
  optionsMap,   \* per node, the LazyOptionsMap, parallel to the listeners
  lastEvent     \* the latest call: its name, the capture option given to
                \* addEventListener, whether the handler was registered,
                \* the invocations it made in order and the errors reported

eventVars ==
  <<listenerMap, optionsMap, lastEvent>>

ledgerVars ==
  <<envWindow, projectConfig, isJasmineRunner, legacyFakeTimers,
    modernFakeTimers, ownerDocuments, outstanding, nodeTimers, registered,
    completed, aborted, wait, round, chained, lastLedger,
    configuredExportConditions, exportOption, createdLegacy, createdModern,
    suspended>>

\* The export conditions of the environment, and its counts of fake timers.
configured == <<configuredExportConditions, exportOption>>
created == <<createdLegacy, createdModern>>

\* What the actions of one part leave alone: the variables of the others.
exceptBinder ==
  <<storageVars, lazyVars, queryVars, stringVars, ledgerVars,
    eventVars>>
exceptStorage ==
  <<binderVars, lazyVars, queryVars, stringVars, ledgerVars,
    eventVars>>
exceptLazy ==
  <<binderVars, storageVars, queryVars, stringVars, ledgerVars,
    eventVars>>
exceptQuery ==
  <<binderVars, storageVars, lazyVars, stringVars, ledgerVars,
    eventVars>>
exceptLedger ==
  <<binderVars, storageVars, lazyVars, queryVars, stringVars, eventVars>>
exceptEvents ==
  <<binderVars, storageVars, lazyVars, queryVars, stringVars, ledgerVars>>
exceptString ==
  <<binderVars, storageVars, lazyVars, queryVars, ledgerVars,
    eventVars>>

\* target.prototype[PropertySymbol.window]: an ordinary property read, which
\* walks the prototype chain when c.prototype has no own property.
RECURSIVE PrototypeGet(_, _)
PrototypeGet(p, c) ==
  IF c = None THEN None
  ELSE IF p[c] # None THEN p[c]
  ELSE PrototypeGet(p, Parent(c))

\* target.prototype[PropertySymbol.window] = window: defines or overwrites the
\* own property of c.prototype.
PrototypeSet(p, c, w) == [p EXCEPT ![c] = w]

\* The finally block of the construct trap, for the frame f.
RestoreAlwaysDelete(p, f) == [p EXCEPT ![f.cls] = None]
RestoreNever(p, f) == p
Restore(p, f) ==
  IF f.originalWindow = None
  THEN [p EXCEPT ![f.cls] = None]
  ELSE PrototypeSet(p, f.cls, f.originalWindow)

\* The instance as the try block leaves it: window set on the instance and
\* constructor redefined to the proxy.
StampNothing(f) ==
  [cls |-> f.cls, window |-> None, constructor |-> Proxy(None, None)]
Stamp(f) ==
  [cls |-> f.cls, window |-> f.window, constructor |-> Proxy(f.cls, f.window)]

\* instance[PropertySymbol.window]: the own property when the instance has
\* one, the prototype chain of its class otherwise.
InstanceWindow(i, p) ==
  IF i.window # None THEN i.window ELSE PrototypeGet(p, i.cls)

\* Reflect.get(target, PropertySymbol.window, receiver): the static property
\* of the implementation class, own or inherited from the class it extends.
RECURSIVE ImplementationStatic(_, _)
ImplementationStatic(st, c) ==
  IF c = None THEN None
  ELSE IF st[c] # None THEN st[c]
  ELSE ImplementationStatic(st, Parent(c))

\* The get trap of the proxy created for class c and window w, reading
\* PropertySymbol.window.
StaticGetNoOverride(st, c, w) == ImplementationStatic(st, c)
StaticGet(st, c, w) ==
  IF setStaticWindow(c) THEN w ELSE ImplementationStatic(st, c)

\* The record of a finished construct trap; cls = None before the first one.
NoConstruction ==
  [cls |-> None, window |-> None, threw |-> FALSE,
   before |-> None, after |-> None]

BinderInit ==
  /\ proto = [c \in Classes |-> None]
  /\ statics = [c \in Classes |-> None]
  /\ stack = <<>>
  /\ instances = <<>>
  /\ last = NoConstruction
  /\ nested = FALSE

\* Entry of the construct trap of Proxy(c, w), up to the call of
\* Reflect.construct: the constructor of c is now running.
EnterNoSet(c, w) ==
  /\ stack' = Append(stack,
       [cls |-> c, window |-> w, originalWindow |-> PrototypeGet(proto, c)])
  /\ proto' = proto
Enter(c, w) ==
  /\ stack' = Append(stack,
       [cls |-> c, window |-> w, originalWindow |-> PrototypeGet(proto, c)])
  /\ proto' = PrototypeSet(proto, c, w)

Construct(c, w) ==
  /\ Len(stack) < MaxDepth
  /\ Len(stack) + Len(instances) < MaxInstances
  /\ Enter(c, w)
  /\ nested' = (nested \/ stack # <<>>)
  /\ UNCHANGED <<statics, instances, last, exceptBinder>>

\* Reflect.construct returns in the innermost trap: the instance is stamped,
\* the finally block runs, the instance is returned.
ConstructReturn ==
  /\ stack # <<>>
  /\ LET f == stack[Len(stack)]
         p == Restore(proto, f)
     IN /\ proto' = p
        /\ instances' = Append(instances, [inst |-> Stamp(f), by |-> f.window])
        /\ last' = [cls |-> f.cls, window |-> f.window, threw |-> FALSE,
                    before |-> f.originalWindow,
                    after |-> PrototypeGet(p, f.cls)]
  /\ stack' = SubSeq(stack, 1, Len(stack) - 1)
  /\ UNCHANGED <<statics, nested, exceptBinder>>

\* Reflect.construct throws in the innermost trap (the constructor raised, or
\* let the error of a nested construction through): the finally block runs
\* and the error propagates; no instance is returned.
ConstructThrow ==
  /\ stack # <<>>
  /\ LET f == stack[Len(stack)]
         p == Restore(proto, f)
     IN /\ proto' = p
        /\ last' = [cls |-> f.cls, window |-> f.window, threw |-> TRUE,
                    before |-> f.originalWindow,
                    after |-> PrototypeGet(p, f.cls)]
  /\ stack' = SubSeq(stack, 1, Len(stack) - 1)
  /\ UNCHANGED <<statics, instances, nested, exceptBinder>>

BinderNext ==
  \/ \E c \in Classes, w \in Windows : Construct(c, w)
  \/ ConstructReturn
  \/ ConstructThrow

(***************************************************************************)
(*                          PART 2: Storage                                *)
(***************************************************************************)

\* JavaScript values: a type tag and a text payload.
Str(s) == [t |-> "string", v |-> s]
Undefined == [t |-> "undefined", v |-> ""]
Null == [t |-> "null", v |-> ""]
Bool(b) == [t |-> "boolean", v |-> IF b THEN "true" ELSE "false"]
Fn(name) == [t |-> "function", v |-> name]
Obj(name) == [t |-> "object", v |-> name]

\* The decimal text of a small natural number.
Digits(n) ==
  CASE n = 0 -> "0" [] n = 1 -> "1" [] n = 2 -> "2" [] n = 3 -> "3"
    [] n = 4 -> "4" [] n = 5 -> "5" [] n = 6 -> "6" [] n = 7 -> "7"
    [] n = 8 -> "8" [] n = 9 -> "9"
Num(n) == [t |-> "number", v |-> Digits(n)]

\* String(value) for the primitive values used here.
String(x) ==
  CASE x.t = "string" -> x.v
    [] x.t = "number" -> x.v
    [] x.t = "boolean" -> x.v
    [] x.t = "null" -> "null"
    [] x.t = "undefined" -> "undefined"

\* Marks a property that an object does not have as an own property.
Absent == [t |-> "absent", v |-> ""]

\* Property names used as keys.
Names == {"a", "1", "length", "getItem", "toString", "__proto__"}

\* Values passed as items and as property values.
Items == {Str("x"), Num(1)}

\* The members the Storage class defines on Storage.prototype.
Members == {"length", "key", "getItem", "setItem", "removeItem", "clear"}
Methods == Members \ {"length"}

\* Properties every ordinary object inherits from Object.prototype;
\* __proto__ is an accessor there, the others are methods.
ObjectPrototypeNames ==
  {"constructor", "toString", "valueOf", "hasOwnProperty", "__proto__"}

\* The array index a property name denotes, -1 when it is not one.
ArrayIndex(k) ==
  CASE k = "0" -> 0 [] k = "1" -> 1 [] k = "2" -> 2 [] OTHER -> -1

\* Bound on the number of stored entries and of redefined members.
MaxEntries == 2
MaxDefined == 1

\* Object.keys(data).
Keys(d) == [i \in 1..Len(d) |-> d[i].k]
KeySet(d) == {d[i].k : i \in 1..Len(d)}

\* Object.prototype.hasOwnProperty.call(data, k).
HasOwn(d, k) == k \in KeySet(d)

\* The own value of k in data.
OwnValue(d, k) == (CHOOSE i \in 1..Len(d) : d[i].k = k)

\* property in data: own or inherited from Object.prototype.
DataIn(d, k) == HasOwn(d, k) \/ k \in ObjectPrototypeNames

\* What Object.prototype gives for name k.
ObjectPrototypeGet(k, self) ==
  IF k = "__proto__" THEN Obj(self)
  ELSE IF k \in ObjectPrototypeNames THEN Fn("Object.prototype." \o k)
  ELSE Undefined

\* data[k]: own property, else the prototype chain of a plain object.
DataGet(d, k) ==
  IF HasOwn(d, k) THEN Str(d[OwnValue(d, k)].v)
  ELSE ObjectPrototypeGet(k, "Object.prototype")

\* The position a new key k takes among the own keys: array indices first,
\* in ascending order, then the other names in order of creation.
InsertAt(d, k) ==
  IF ArrayIndex(k) < 0 THEN Len(d) + 1
  ELSE 1 + Cardinality({i \in 1..Len(d) :
             ArrayIndex(d[i].k) >= 0 /\ ArrayIndex(d[i].k) < ArrayIndex(k)})

\* An assignment that adds an entry even when the key exists.
DataSetAppending(d, k, text) == Append(d, [k |-> k, v |-> text])

\* data[k] = text.  An existing own property keeps its position; the
\* inherited __proto__ setter ignores a value that is not an object.
DataSet(d, k, text) ==
  IF HasOwn(d, k)
  THEN [d EXCEPT ![OwnValue(d, k)] = [k |-> k, v |-> text]]
  ELSE IF k = "__proto__" THEN d
  ELSE LET p == InsertAt(d, k)
       IN SubSeq(d, 1, p - 1) \o <<[k |-> k, v |-> text]>>
            \o SubSeq(d, p, Len(d))

\* delete data[k].
DataDelete(d, k) ==
  IF HasOwn(d, k)
  THEN LET p == OwnValue(d, k)
       IN SubSeq(d, 1, p - 1) \o SubSeq(d, p + 1, Len(d))
  ELSE d

\* property in target: own properties of the Storage object, the members on
\* Storage.prototype and what Object.prototype provides.
TargetIn(o, k) ==
  \/ (k \in DOMAIN o /\ o[k] # Absent)
  \/ k \in Members
  \/ k \in ObjectPrototypeNames

\* get length(): Object.keys(this[PropertySymbol.data]).length.
Length(d) == Num(Len(d))

\* target[k] for a name that is in target.
TargetGet(o, d, k) ==
  IF k \in DOMAIN o /\ o[k] # Absent THEN o[k]
  ELSE IF k = "length" THEN Length(d)
  ELSE IF k \in Methods THEN Fn("Storage.prototype." \o k)
  ELSE ObjectPrototypeGet(k, "Storage.prototype")

\* value.bind(proxy).  boundMethodCache memoizes this result per property and
\* the defineProperty trap drops the entry of the property it redefines, so a
\* cached method is always the bound form of the current target[property]:
\* the cache does not change what the get trap returns and is not a variable.
Bind(f) == Fn("bound " \o f.v)

\* The get trap, for a string property: its result.
ProxyGetDataFirst(o, d, k) ==
  IF HasOwn(d, k) THEN DataGet(d, k)
  ELSE IF TargetIn(o, k)
  THEN LET value == TargetGet(o, d, k)
       IN IF value.t = "function" THEN Bind(value) ELSE value
  ELSE Undefined
ProxyGet(o, d, k) ==
  IF TargetIn(o, k)
  THEN LET value == TargetGet(o, d, k)
       IN IF value.t = "function" THEN Bind(value) ELSE value
  ELSE IF DataIn(d, k) THEN DataGet(d, k)
  ELSE Undefined

\* getItem(name).
GetItem(d, name) ==
  IF DataGet(d, name) # Undefined THEN DataGet(d, name) ELSE Null

\* key(index).
Key(d, index) ==
  IF index >= 0 /\ index < Len(d) THEN Str(Keys(d)[index + 1]) ELSE Null

\* A method of the store can be called while the property read that finds it
\* yields the bound method of Storage.prototype.
Callable(o, d, m) ==
  ProxyGet(o, d, m) = Bind(Fn("Storage.prototype." \o m))

\* The data object after setItem(name, item).
SetItemData(d, name, item) == DataSet(d, name, String(item))

\* The data object after removeItem(name).
RemoveItemData(d, name) == DataDelete(d, name)

\* A set trap that stores under every name.
SetTrapStoresAlways(o, d, k, value) == DataSet(d, k, String(value))

\* The data object after the set trap ran for storage[k] = value.
SetTrap(o, d, k, value) ==
  IF TargetIn(o, k) THEN d ELSE DataSet(d, k, String(value))

\* What the set trap returns for storage[k] = value: true on both paths.
SetTrapReturns(o, k) == IF TargetIn(o, k) THEN TRUE ELSE TRUE

\* The data object after the deleteProperty trap ran for delete storage[k].
DeletePropertyTrap(d, k) == IF DataIn(d, k) THEN DataDelete(d, k) ELSE d

\* The has trap: k in storage.
HasTrap(o, d, k) == TargetIn(o, k) \/ DataIn(d, k)

\* The ownKeys trap: Object.keys(data).
OwnKeysTrap(d) == Keys(d)

NoWrite == [name |-> "", text |-> ""]
NoTrap == [name |-> "", returned |-> FALSE]

\* The order of creation of the own keys of dNew, given that of the keys
\* before the step: a deleted key leaves, a new key comes last.
Created(ord, dNew) ==
  LET kept == SelectSeq(ord, LAMBDA k : HasOwn(dNew, k))
      new == KeySet(dNew) \ {ord[i] : i \in 1..Len(ord)}
  IN IF new = {} THEN kept ELSE Append(kept, CHOOSE k \in new : TRUE)

\* The effect of touching name k on the record of the latest setItem.
Forget(w, k) == IF w.name = k THEN NoWrite ELSE w

StorageInit ==
  /\ data = <<>>
  /\ own = [k \in Names |-> Absent]
  /\ written = NoWrite
  /\ order = <<>>
  /\ lastTrap = NoTrap

\* storage.setItem(name, item)
SetItem(name, item) ==
  /\ Callable(own, data, "setItem")
  /\ Len(SetItemData(data, name, item)) <= MaxEntries
  /\ data' = SetItemData(data, name, item)
  /\ written' = [name |-> name, text |-> String(item)]
  /\ order' = Created(order, data')
  /\ lastTrap' = NoTrap
  /\ UNCHANGED <<own, exceptStorage>>

\* storage.removeItem(name)
RemoveItem(name) ==
  /\ Callable(own, data, "removeItem")
  /\ data' = RemoveItemData(data, name)
  /\ written' = Forget(written, name)
  /\ order' = Created(order, data')
  /\ lastTrap' = NoTrap
  /\ UNCHANGED <<own, exceptStorage>>

\* storage.clear(): every own key of data is deleted.
Clear ==
  /\ Callable(own, data, "clear")
  /\ data' = <<>>
  /\ written' = NoWrite
  /\ order' = <<>>
  /\ lastTrap' = NoTrap
  /\ UNCHANGED <<own, exceptStorage>>

\* storage[k] = value: the set trap.
PropertyWrite(k, value) ==
  /\ Len(SetTrap(own, data, k, value)) <= MaxEntries
  /\ data' = SetTrap(own, data, k, value)
  /\ written' = Forget(written, k)
  /\ order' = Created(order, data')
  /\ lastTrap' = [name |-> k, returned |-> SetTrapReturns(own, k)]
  /\ UNCHANGED <<own, exceptStorage>>

\* delete storage[k]: the deleteProperty trap.
PropertyDelete(k) ==
  /\ data' = DeletePropertyTrap(data, k)
  /\ written' = Forget(written, k)
  /\ order' = Created(order, data')
  /\ lastTrap' = NoTrap
  /\ UNCHANGED <<own, exceptStorage>>

\* Object.defineProperty(storage, k, {value, writable: true,
\* enumerable: true, configurable: true}): the defineProperty trap.
DefineProperty(k, value) ==
  /\ written' = Forget(written, k)
  /\ IF TargetIn(own, k)
     THEN /\ Cardinality({n \in Names : own[n] # Absent} \cup {k})
               <= MaxDefined
          /\ own' = [own EXCEPT ![k] = value]
          /\ data' = data
     ELSE IF value # Undefined
     THEN /\ Len(DataSet(data, k, String(value))) <= MaxEntries
          /\ data' = DataSet(data, k, String(value))
          /\ own' = own
     ELSE UNCHANGED <<data, own>>
  /\ order' = Created(order, data')
  /\ lastTrap' = NoTrap
  /\ UNCHANGED <<exceptStorage>>

StorageNext ==
  \/ \E name \in Names, item \in Items : SetItem(name, item)
  \/ \E name \in Names : RemoveItem(name)
  \/ Clear
  \/ \E k \in Names, value \in Items : PropertyWrite(k, value)
  \/ \E k \in Names : PropertyDelete(k)
  \/ \E k \in Names, value \in Items \cup {Undefined} :
       DefineProperty(k, value)

(***************************************************************************)
(*        PART 3: NodeCache, LazyNamedNodeMapData, LazyListenerMap,        *)
(*                          LazyOptionsMap                                 *)
(***************************************************************************)
MaxCached == 1   \* entries held by one object at a time
MaxAttrs == 2    \* attributes held by one element at a time

LazyKinds ==
  {"NodeCache", "LazyNamedNodeMapData", "LazyListenerMap", "LazyOptionsMap"}

NodeCacheFields ==
  {"querySelector", "querySelectorAll", "matches", "elementsByTagName",
   "elementsByTagNameNS", "elementByTagName", "elementById"}

NamedNodeMapDataFields == {"itemsByNamespaceURI", "itemsByName", "items"}

ListenerMapFields == {"capturing", "bubbling"}

FieldsOf(k) ==
  CASE k = "NodeCache" -> NodeCacheFields
    [] k = "LazyNamedNodeMapData" -> NamedNodeMapDataFields
    [] OTHER -> ListenerMapFields

\* The keys used with the Maps of a cache or of a listener container.
MapKeys == {"k1", "k2"}

\* A private field holding null, and one holding a new Map().  The entries
\* of a Map are <<key, value>> pairs.
NullMap == [alloc |-> FALSE, entries |-> {}]
NewMap == [alloc |-> TRUE, entries |-> {}]

\* JavaScript's Map: has, set, delete, clear and size.
MapHas(m, key) == \E e \in m.entries : e[1] = key
MapSet(m, key, value) ==
  [m EXCEPT !.entries = {e \in @ : e[1] # key} \cup {<<key, value>>}]
MapDelete(m, key) == [m EXCEPT !.entries = {e \in @ : e[1] # key}]
MapClear(m) == [m EXCEPT !.entries = {}]
MapSize(m) == Cardinality({e[1] : e \in m.entries})

\* Getters that create every Map of the object, or none, instead of the
\* one asked for.
GetterCreatingAll(flds, f) ==
  [g \in DOMAIN flds |-> IF flds[g].alloc THEN flds[g] ELSE NewMap]
GetterCreatingNothing(flds, f) == flds

\* The fields after the getter of f ran: "if (this._f === null) this._f =
\* new Map(); return this._f".
Getter(flds, f) == IF flds[f].alloc THEN flds ELSE [flds EXCEPT ![f] = NewMap]

\* The fields after the setter of f ran with a Map or with null.
Setter(flds, f, value) == [flds EXCEPT ![f] = value]

\* NodeCache.hasData and LazyNamedNodeMapData.hasItems read the private
\* fields, never the getters.
\* A hasData that tests only that a Map exists.
HasDataWhenCreated(flds, style) ==
  \/ \E f \in NodeCacheFields : flds[f].alloc
  \/ style

HasData(flds, style) ==
  \/ \E f \in NodeCacheFields : flds[f].alloc /\ MapSize(flds[f]) > 0
  \/ style
HasItems(flds) == flds["items"].alloc /\ MapSize(flds["items"]) > 0

\* NodeCache.clear() that forgets the querySelectorAll Map, or does nothing.
NodeCacheClearKeepingQuerySelectorAll(flds) ==
  [f \in DOMAIN flds |->
     IF flds[f].alloc /\ f # "querySelectorAll" THEN NullMap ELSE flds[f]]
NodeCacheClearNothing(flds) == flds

\* A NodeCache.clear() that forgets the elementById Map, and a
\* LazyNamedNodeMapData.clear() that only drops the qualified-name Map.
NodeCacheClearKeepingById(flds) ==
  [f \in DOMAIN flds |->
     IF flds[f].alloc /\ f # "elementById" THEN NullMap ELSE flds[f]]
LazyNamedNodeMapDataClearItemsOnly(flds) ==
  [f \in DOMAIN flds |->
     IF flds[f].alloc /\ f = "items" THEN NullMap ELSE flds[f]]

\* NodeCache.clear(): every Map that exists is set to null.
NodeCacheClear(flds) ==
  [f \in DOMAIN flds |-> IF flds[f].alloc THEN NullMap ELSE flds[f]]

\* LazyNamedNodeMapData.clear(): every Map that exists is cleared and set to
\* null.
LazyNamedNodeMapDataClear(flds) ==
  [f \in DOMAIN flds |-> IF flds[f].alloc THEN NullMap ELSE flds[f]]

\* LazyListenerMap.clear() and LazyOptionsMap.clear(): every Map that exists
\* is cleared, and stays.
LazyListenerMapClear(flds) ==
  [f \in DOMAIN flds |-> IF flds[f].alloc THEN MapClear(flds[f]) ELSE flds[f]]
LazyOptionsMapClear(flds) ==
  [f \in DOMAIN flds |-> IF flds[f].alloc THEN MapClear(flds[f]) ELSE flds[f]]

ClearOf(k, flds) ==
  CASE k = "NodeCache" -> NodeCacheClear(flds)
    [] k = "LazyNamedNodeMapData" -> LazyNamedNodeMapDataClear(flds)
    [] k = "LazyListenerMap" -> LazyListenerMapClear(flds)
    [] OTHER -> LazyOptionsMapClear(flds)

\* The number of entries in all the Maps of the object.
TotalEntries(flds) ==
  Cardinality({p \in (DOMAIN flds) \X
                        (UNION {flds[g].entries : g \in DOMAIN flds}) :
                 p[2] \in flds[p[1]].entries})

\* A lookup through the getter hits when the Map has the key.
Hit(flds, f, key) == MapHas(Getter(flds, f)[f], key)

\* The attributes an element can carry: two share the local name "id".
\* obj names the Attr object; nsKey is its key in the namespace view.
AttrObjects ==
  {[obj |-> "id#1", name |-> "id", local |-> "id", nsKey |-> ":id"],
   [obj |-> "id#2", name |-> "id", local |-> "id", nsKey |-> ":id"],
   [obj |-> "x:id#1", name |-> "x:id", local |-> "id", nsKey |-> "x:id"],
   [obj |-> "class#1", name |-> "class", local |-> "class",
    nsKey |-> ":class"]}

\* The Attr objects of the qualified-name view with the name of a.
SameName(flds, a) ==
  {b \in AttrObjects :
     b.name = a.name /\ <<b.name, b.obj>> \in flds["items"].entries}

\* The fields after the getters of all three views ran.
AllViews(flds) ==
  Getter(Getter(Getter(flds, "items"), "itemsByName"), "itemsByNamespaceURI")

\* Removing the attribute with the qualified name of a from all three views.
\* Fast path: on an element with zero attributes (hasItems is false) no
\* view is touched, so none is allocated.
RemoveFromViews(flds, a) ==
  IF ~HasItems(flds) THEN flds
  ELSE LET gone == {b.obj : b \in SameName(flds, a)}
           all == AllViews(flds)
       IN [f \in DOMAIN all |->
             [all[f] EXCEPT !.entries = {e \in @ : e[2] \notin gone}]]

\* Upserting a into all three views: an attribute of the same qualified
\* name is replaced.
SetInViews(flds, a) ==
  LET rest == AllViews(RemoveFromViews(flds, a))
  IN [rest EXCEPT
        !["items"] = MapSet(@, a.name, a.obj),
        !["itemsByName"].entries = @ \cup {<<a.local, a.obj>>},
        !["itemsByNamespaceURI"] = MapSet(@, a.nsKey, a.obj)]

\* A call, the fields whose getter or setter it went through, and what it
\* found: for a lookup the accessed fields that already held a Map, for
\* clear() the fields whose Map held entries.
Called(op, accessed, had) == [op |-> op, accessed |-> accessed, had |-> had]

Allocated(flds) == {f \in DOMAIN flds : flds[f].alloc}
Filled(flds) == {f \in DOMAIN flds : flds[f].entries # {}}

LazyInit ==
  /\ kind \in LazyKinds
  /\ fields = [f \in FieldsOf(kind) |-> NullMap]
  /\ computedStyle = FALSE
  /\ lastCall = Called("new", {}, {})

\* cache.f.get(key), listeners.f.get(key), data.f.get(key).
Lookup(f, key) ==
  /\ f \in FieldsOf(kind)
  /\ fields' = Getter(fields, f)
  /\ lastCall' = Called("get", {f}, {f} \cap Allocated(fields))
  /\ UNCHANGED <<kind, computedStyle, exceptLazy>>

\* cache.f.set(key, result), listeners.f.set(key, list).
Store(f, key) ==
  /\ kind # "LazyNamedNodeMapData"
  /\ f \in FieldsOf(kind)
  /\ TotalEntries([Getter(fields, f) EXCEPT ![f] = MapSet(@, key, "r")])
       <= MaxCached
  /\ fields' = [Getter(fields, f) EXCEPT ![f] = MapSet(@, key, "r")]
  /\ lastCall' = Called("set", {f}, {})
  /\ UNCHANGED <<kind, computedStyle, exceptLazy>>

\* cache.f.delete(key), listeners.f.delete(key).
Remove(f, key) ==
  /\ kind # "LazyNamedNodeMapData"
  /\ f \in FieldsOf(kind)
  /\ fields' = [Getter(fields, f) EXCEPT ![f] = MapDelete(@, key)]
  /\ lastCall' = Called("delete", {f}, {})
  /\ UNCHANGED <<kind, computedStyle, exceptLazy>>

\* cache.f = null, cache.f = new Map().
Assign(f, value) ==
  /\ kind = "NodeCache"
  /\ f \in FieldsOf(kind)
  /\ fields' = Setter(fields, f, value)
  /\ lastCall' = Called("assign", {f}, {})
  /\ UNCHANGED <<kind, computedStyle, exceptLazy>>

\* data.items = value, data.itemsByName = value and
\* data.itemsByNamespaceURI = value: the public setters of
\* LazyNamedNodeMapData replace the one view they name.
AssignView(f, value) ==
  /\ kind = "LazyNamedNodeMapData"
  /\ f \in FieldsOf(kind)
  /\ fields' = Setter(fields, f, value)
  /\ lastCall' = Called("assign", {f}, {})
  /\ UNCHANGED <<kind, computedStyle, exceptLazy>>

\* cache.computedStyle = result, cache.computedStyle = null.
AssignComputedStyle(style) ==
  /\ kind = "NodeCache"
  /\ computedStyle' = style
  /\ lastCall' = Called("assignComputedStyle", {}, {})
  /\ UNCHANGED <<kind, fields, exceptLazy>>

\* cache.hasData, data.hasItems.
Has ==
  /\ kind \in {"NodeCache", "LazyNamedNodeMapData"}
  /\ lastCall' = Called("has", {}, {})
  /\ UNCHANGED <<kind, fields, computedStyle, exceptLazy>>

\* clear() of the four classes.
ClearAll ==
  /\ fields' = ClearOf(kind, fields)
  /\ computedStyle' = IF kind = "NodeCache" THEN FALSE ELSE computedStyle
  /\ lastCall' = Called("clear", {}, Filled(fields))
  /\ UNCHANGED <<kind, exceptLazy>>

\* Setting an attribute of the element owning the LazyNamedNodeMapData.
SetNamedItem(a) ==
  /\ kind = "LazyNamedNodeMapData"
  /\ MapSize(SetInViews(fields, a)["items"]) <= MaxAttrs
  /\ fields' = SetInViews(fields, a)
  /\ lastCall' = Called("setNamedItem", NamedNodeMapDataFields, {})
  /\ UNCHANGED <<kind, computedStyle, exceptLazy>>

\* Removing an attribute of the element.
RemoveNamedItem(a) ==
  /\ kind = "LazyNamedNodeMapData"
  /\ fields' = RemoveFromViews(fields, a)
  /\ lastCall' = Called("removeNamedItem",
                        IF HasItems(fields) THEN NamedNodeMapDataFields
                        ELSE {},
                        {})
  /\ UNCHANGED <<kind, computedStyle, exceptLazy>>

LazyNext ==
  \/ \E f \in NodeCacheFields \cup NamedNodeMapDataFields \cup
              ListenerMapFields, key \in MapKeys : Lookup(f, key)
  \/ \E f \in NodeCacheFields \cup ListenerMapFields, key \in MapKeys :
       Store(f, key)
  \/ \E f \in NodeCacheFields \cup ListenerMapFields, key \in MapKeys :
       Remove(f, key)
  \/ \E f \in NodeCacheFields, value \in {NullMap, NewMap} : Assign(f, value)
  \/ \E f \in NamedNodeMapDataFields, value \in {NullMap, NewMap} :
       AssignView(f, value)
  \/ \E style \in BOOLEAN : AssignComputedStyle(style)
  \/ Has
  \/ ClearAll
  \/ \E a \in AttrObjects : SetNamedItem(a)
  \/ \E a \in AttrObjects : RemoveNamedItem(a)

(***************************************************************************)
(*     PART 4: cached queries on a tree whose nodes own a NodeCache        *)
(***************************************************************************)
\* The document and its elements.  The document and e1 can have children.
Elements == {"e1", "e2", "e3"}
Nodes == {"doc"} \cup Elements
Parents == {"doc", "e1"}
NoId == ""
Ids == {"a"}
Selectors == {".item", "#a"}
QueryFields == {"querySelectorAll", "elementById"}

\* The elements below the nodes of seq, in document order.
RECURSIVE Expand(_, _)
Expand(ch, seq) ==
  IF seq = <<>> THEN <<>>
  ELSE <<Head(seq)>>
         \o (IF Head(seq) \in DOMAIN ch THEN Expand(ch, ch[Head(seq)])
             ELSE <<>>)
         \o Expand(ch, Tail(seq))

Descendants(ch, n) == IF n \in DOMAIN ch THEN Expand(ch, ch[n]) ELSE <<>>

ChildrenOf(ch, p) == {ch[p][i] : i \in 1..Len(ch[p])}

HasParent(ch, e) == \E p \in DOMAIN ch : e \in ChildrenOf(ch, p)
ParentOf(ch, e) == CHOOSE p \in DOMAIN ch : e \in ChildrenOf(ch, p)

\* n and the nodes it is below.
RECURSIVE AncestorsOrSelf(_, _)
AncestorsOrSelf(ch, n) ==
  {n} \cup (IF HasParent(ch, n) THEN AncestorsOrSelf(ch, ParentOf(ch, n))
            ELSE {})

\* seq with e put before position pos, and seq without e.
WithChild(seq, pos, e) ==
  SubSeq(seq, 1, pos - 1) \o <<e>> \o SubSeq(seq, pos, Len(seq))
WithoutChild(seq, e) == SelectSeq(seq, LAMBDA x : x # e)

\* Every element has the class "item"; "#a" selects by id.
Matches(idOf, e, s) == s = ".item" \/ (s = "#a" /\ idOf[e] = "a")

\* The result of the selector computed on the tree: the matching elements
\* below n in document order.
QueryOnTree(ch, idOf, n, s) ==
  SelectSeq(Descendants(ch, n), LAMBDA e : Matches(idOf, e, s))

\* The first element of the document, in document order, with the id; no
\* element is <<>>.
ByIdOnTree(ch, idOf, i) ==
  LET found == SelectSeq(Descendants(ch, "doc"), LAMBDA e : idOf[e] = i)
  IN IF found = <<>> THEN <<>> ELSE <<found[1]>>

NewCache == [f \in NodeCacheFields |-> NullMap]

\* The cached result for the key, when there is one.
Cached(c, f, key) == (CHOOSE e \in c[f].entries : e[1] = key)[2]

\* The cache after a lookup of the key in field f that stores the computed
\* result on a miss, and the result returned.
CachedOrComputed(c, f, key, computed) ==
  IF Hit(c, f, key) THEN Cached(c, f, key) ELSE computed
AfterQuery(c, f, key, computed) ==
  IF Hit(c, f, key) THEN Getter(c, f)
  ELSE [Getter(c, f) EXCEPT ![f] = MapSet(@, key, computed)]

\* The caches after a mutation at node n: the cache of n and of every node
\* above it is cleared.
Invalidate(c, ch, n) ==
  [m \in DOMAIN c |->
     IF m \in AncestorsOrSelf(ch, n) THEN NodeCacheClear(c[m]) ELSE c[m]]

\* The cached results that a mutation at node n discards.
Discarded(c, ch, n) ==
  UNION {{<<p[1], p[2], e[1], e[2]>> : e \in c[p[1]][p[2]].entries} :
           p \in AncestorsOrSelf(ch, n) \X QueryFields}

\* An operation, with the result of a query, the result that the mutation
\* just before the query discarded for the same key, and the results that a
\* mutation discarded.
Op(op, node, key, result, old, dropped) ==
  [op |-> op, node |-> node, key |-> key, result |-> result, old |-> old,
   dropped |-> dropped]

OldOf(o, n, f, key) ==
  {d[4] : d \in {x \in o.dropped : x[1] = n /\ x[2] = f /\ x[3] = key}}

QueryInit ==
  /\ children = [p \in Parents |-> <<>>]
  /\ ids = [e \in Elements |-> NoId]
  /\ cache = [n \in Nodes |-> NewCache]
  /\ lastOp = Op("new", "doc", "", <<>>, {}, {})

\* n.querySelectorAll(s).
QuerySelectorAll(n, s) ==
  LET computed == QueryOnTree(children, ids, n, s)
  IN /\ cache' = [cache EXCEPT ![n] =
                    AfterQuery(@, "querySelectorAll", s, computed)]
     /\ lastOp' = Op("querySelectorAll", n, s,
                     CachedOrComputed(cache[n], "querySelectorAll", s,
                                      computed),
                     OldOf(lastOp, n, "querySelectorAll", s), {})
     /\ UNCHANGED <<children, ids, exceptQuery>>

\* document.getElementById(i).
GetElementById(i) ==
  LET computed == ByIdOnTree(children, ids, i)
  IN /\ cache' = [cache EXCEPT !["doc"] =
                    AfterQuery(@, "elementById", i, computed)]
     /\ lastOp' = Op("getElementById", "doc", i,
                     CachedOrComputed(cache["doc"], "elementById", i,
                                      computed),
                     OldOf(lastOp, "doc", "elementById", i), {})
     /\ UNCHANGED <<children, ids, exceptQuery>>

\* p.insertBefore(e, p.children[pos]); appendChild when pos is past the end.
InsertBefore(p, e, pos) ==
  /\ e # p
  /\ ~HasParent(children, e)
  /\ pos \in 1..(Len(children[p]) + 1)
  /\ children' = [children EXCEPT ![p] = WithChild(@, pos, e)]
  /\ cache' = Invalidate(cache, children, p)
  /\ lastOp' = Op("insertBefore", p, e, <<>>, {},
                  Discarded(cache, children, p))
  /\ UNCHANGED <<ids, exceptQuery>>

\* e.parentNode.removeChild(e).
RemoveChild(e) ==
  /\ HasParent(children, e)
  /\ children' = [children EXCEPT ![ParentOf(children, e)] =
                    WithoutChild(@, e)]
  /\ cache' = Invalidate(cache, children, ParentOf(children, e))
  /\ lastOp' = Op("removeChild", ParentOf(children, e), e, <<>>, {},
                  Discarded(cache, children, ParentOf(children, e)))
  /\ UNCHANGED <<ids, exceptQuery>>

\* e.id = i, e.removeAttribute("id").
SetId(e, i) ==
  /\ ids[e] # i
  /\ ids' = [ids EXCEPT ![e] = i]
  /\ cache' = Invalidate(cache, children, e)
  /\ lastOp' = Op("setId", e, i, <<>>, {}, Discarded(cache, children, e))
  /\ UNCHANGED <<children, exceptQuery>>

QueryNext ==
  \/ \E n \in Parents, s \in Selectors : QuerySelectorAll(n, s)
  \/ \E i \in Ids : GetElementById(i)
  \/ \E p \in Parents, e \in Elements, pos \in 1..Cardinality(Elements) :
       InsertBefore(p, e, pos)
  \/ \E e \in Elements : RemoveChild(e)
  \/ \E e \in Elements, i \in Ids \cup {NoId} : SetId(e, i)

(***************************************************************************)
(*                       PART 5: StringUtility                             *)
(***************************************************************************)
\* CACHE_MAX_SIZE and CACHE_EVICT_COUNT, 10000 and 1000 in the source, at
\* the scale of the model.
CACHE_MAX_SIZE == 3
CACHE_EVICT_COUNT == 2

\* Texts are sequences of char codes.  The codes are those around the
\* ranges A-Z (65-90) and a-z (97-122).
Texts ==
  {<<>>, <<65>>, <<64, 90, 91>>, <<96, 97, 122, 123>>, <<65, 97>>}

\* The loops of asciiLowerCase and asciiUpperCase with a range that misses
\* its first letter.
LowerCharAfterA(value) ==
  IF value > 65 /\ value <= 90 THEN value + 32 ELSE value
UpperCharAfterA(value) ==
  IF value > 97 /\ value <= 122 THEN value - 32 ELSE value

\* One round of the loop of asciiLowerCase, of asciiUpperCase.
LowerChar(value) == IF value >= 65 /\ value <= 90 THEN value + 32 ELSE value
UpperChar(value) == IF value >= 97 /\ value <= 122 THEN value - 32 ELSE value

\* newText after the loop.
LowerText(text) == [i \in 1..Len(text) |-> LowerChar(text[i])]
UpperText(text) == [i \in 1..Len(text) |-> UpperChar(text[i])]

\* A Map<string, string> is the sequence of its entries in insertion order.
\* cache.get(text) !== undefined, cache.get(text), cache.delete(text) and
\* cache.set(text, value).
CacheHas(c, text) == \E i \in 1..Len(c) : c[i].k = text
CacheGet(c, text) == c[CHOOSE i \in 1..Len(c) : c[i].k = text].v
CacheDelete(c, text) == SelectSeq(c, LAMBDA e : e.k # text)
CacheSet(c, text, value) ==
  IF CacheHas(c, text)
  THEN [i \in 1..Len(c) |->
          IF c[i].k = text THEN [k |-> text, v |-> value] ELSE c[i]]
  ELSE Append(c, [k |-> text, v |-> value])

\* An evictOldest that deletes nothing.
evictNothing(c, count) == c

\* evictOldest(cache, count): deletes the first count keys, or all of them
\* when there are fewer.
evictOldest(c, count) ==
  SubSeq(c, (IF count < Len(c) THEN count ELSE Len(c)) + 1, Len(c))

\* What a call does with the cache: a hit, a miss, or a miss at capacity.
ConversionKind(c, text) ==
  IF CacheHas(c, text) THEN "hit"
  ELSE IF Len(c) >= CACHE_MAX_SIZE THEN "evict"
  ELSE "miss"

\* The value a call returns and the cache it leaves, for the conversion
\* newText of the text.
Returned(c, text, newText) ==
  IF CacheHas(c, text) THEN CacheGet(c, text) ELSE newText
\* A hit that leaves the entry where it is.
CacheAfterKeepingPlace(c, text, newText) ==
  IF CacheHas(c, text) THEN c
  ELSE CacheSet(IF Len(c) >= CACHE_MAX_SIZE
                THEN evictOldest(c, CACHE_EVICT_COUNT)
                ELSE c,
                text, newText)

CacheAfter(c, text, newText) ==
  IF CacheHas(c, text)
  THEN CacheSet(CacheDelete(c, text), text, CacheGet(c, text))
  ELSE CacheSet(IF Len(c) >= CACHE_MAX_SIZE
                THEN evictOldest(c, CACHE_EVICT_COUNT)
                ELSE c,
                text, newText)

\* The record of last uses after a call with the text that left the cache
\* after: the text is the latest, and evicted texts are forgotten.
UseAfter(use, text, after) ==
  SelectSeq(Append(SelectSeq(use, LAMBDA k : k # text), text),
            LAMBDA k : CacheHas(after, k))

StringInit ==
  /\ lowerCache = <<>>
  /\ upperCache = <<>>
  /\ lowerUse = <<>>
  /\ upperUse = <<>>
  /\ lastConversion = [fn |-> "", kind |-> ""]

\* StringUtility.asciiLowerCase(text).
asciiLowerCase(text) ==
  /\ lowerCache' = CacheAfter(lowerCache, text, LowerText(text))
  /\ lowerUse' = UseAfter(lowerUse, text, lowerCache')
  /\ lastConversion' = [fn |-> "asciiLowerCase",
                        kind |-> ConversionKind(lowerCache, text)]
  /\ UNCHANGED <<upperCache, upperUse, exceptString>>

\* StringUtility.asciiUpperCase(text).
asciiUpperCase(text) ==
  /\ upperCache' = CacheAfter(upperCache, text, UpperText(text))
  /\ upperUse' = UseAfter(upperUse, text, upperCache')
  /\ lastConversion' = [fn |-> "asciiUpperCase",
                        kind |-> ConversionKind(upperCache, text)]
  /\ UNCHANGED <<lowerCache, lowerUse, exceptString>>

StringNext ==
  \/ \E text \in Texts : asciiLowerCase(text)
  \/ \E text \in Texts : asciiUpperCase(text)

(***************************************************************************)
(*      PART 6: the asynchronous task ledger and the Jest environment      *)
(***************************************************************************)
\* The number of timers and tasks one behaviour registers, and the number of
\* documents NodeFactory.ownerDocuments holds at most.
MaxTasks == 3
MaxDocuments == 1

\* The fake timers of one kind an environment creates at most.
MaxCreated == 2

\* customExportConditions = ['node', 'node-addons'].
customExportConditions == <<"node", "node-addons">>

\* Values of testEnvironmentOptions.customExportConditions: the option is
\* absent, an array (of strings, or with a number in it) or a string.
NoOption == [in |-> FALSE, array |-> FALSE, items |-> <<>>]
ArrayOf(items) == [in |-> TRUE, array |-> TRUE, items |-> items]
StringItem(text) == [type |-> "string", text |-> text]
NumberItem(text) == [type |-> "number", text |-> text]
ExportOptions ==
  {NoOption,
   ArrayOf(<<>>),
   ArrayOf(<<StringItem("browser")>>),
   ArrayOf(<<StringItem("browser"), NumberItem("0")>>),
   [in |-> TRUE, array |-> FALSE, items |-> <<>>]}

\* Array.isArray(customExportConditions) &&
\* customExportConditions.every((condition) => typeof condition === 'string')
ArrayOfStrings(option) ==
  /\ option.array
  /\ \A i \in 1..Len(option.items) : option.items[i].type = "string"

\* A field that holds null or undefined, and one that holds an array.
Nullish == [nullish |-> TRUE, items |-> <<>>]
Conditions(option) ==
  [nullish |-> FALSE,
   items |-> [i \in 1..Len(option.items) |-> option.items[i].text]]

\* this._configuredExportConditions after a constructor that did not throw.
ConfiguredBy(option) ==
  IF option.in THEN Conditions(option) ELSE Conditions(ArrayOf(<<>>))

\* Whether the constructor throws 'Custom export conditions specified but
\* they are not an array of strings'.
ConstructorThrows(option) == option.in /\ ~ArrayOfStrings(option)

\* exportConditions(): this._configuredExportConditions ??
\* this.customExportConditions.
exportConditions(field) ==
  IF ~field.nullish THEN field.items ELSE customExportConditions

Tasks == 1..MaxTasks

\* The decision of the wrapper the constructor installs around setTimeout:
\* with the jest-jasmine runner, a call whose stack contains /jest-jasmine
\* goes to the setTimeout of Node, every other call to the one of the window.
TimerOwner(jasmineRunner, fromJasmine) ==
  IF jasmineRunner /\ fromJasmine THEN "node" ELSE "window"

\* A waitUntilComplete() that resolves at the end of its first drain round.
FirstRoundDrained(out) == TRUE

\* The test waitUntilComplete() makes at the end of each drain round: the
\* ledger is empty.
FixedPoint(out) == out = {}

\* A teardown() that aborts the window without looking at the field.
TeardownAbortsAlways(w) == TRUE

\* if (this.window) in teardown().
TeardownAborts(w) == w = "window"

\* The effects teardown() has in order: it disposes the fake timers that were
\* created, then aborts the window.
TeardownLog(legacy, modern, w) ==
  (IF legacy # "null" THEN <<"disposeLegacy">> ELSE <<>>)
    \o (IF modern # "null" THEN <<"disposeModern">> ELSE <<>>)
    \o (IF TeardownAborts(w) THEN <<"abort">> ELSE <<>>)

LedgerInit ==
  /\ envWindow = None
  /\ projectConfig = FALSE
  /\ isJasmineRunner = FALSE
  /\ legacyFakeTimers = "null"
  /\ modernFakeTimers = "null"
  /\ ownerDocuments = 0
  /\ outstanding = {}
  /\ nodeTimers = {}
  /\ registered = 0
  /\ completed = {}
  /\ aborted = FALSE
  /\ wait = "idle"
  /\ round = {}
  /\ chained = FALSE
  /\ lastLedger = [op |-> "", log |-> <<>>, discarded |-> {}, error |-> None]
  /\ configuredExportConditions = Nullish
  /\ exportOption = NoOption
  /\ createdLegacy = 0
  /\ createdModern = 0
  /\ suspended = 0

Ledger(op) == [op |-> op, log |-> <<>>, discarded |-> {}, error |-> None]

\* new HappyDOMEnvironment(config, options), with or without the
\* jest-jasmine runner and with the option customExportConditions.  The
\* constructor throws before it creates the window when the option is not
\* an array of strings.
NewEnvironment(jasmine, option) ==
  /\ envWindow = None
  /\ IF ConstructorThrows(option)
     THEN /\ lastLedger' = [Ledger("constructor") EXCEPT !.error = "Error"]
          /\ UNCHANGED <<envWindow, projectConfig, isJasmineRunner,
                         configured>>
     ELSE /\ envWindow' = "window"
          /\ projectConfig' = TRUE
          /\ isJasmineRunner' = jasmine
          /\ configuredExportConditions' = ConfiguredBy(option)
          /\ exportOption' = option
          /\ lastLedger' = Ledger("constructor")
  /\ UNCHANGED <<legacyFakeTimers, modernFakeTimers, ownerDocuments,
                 outstanding, nodeTimers, registered, completed, aborted,
                 wait, round, chained, created, suspended, exceptLedger>>

\* environment.global.setTimeout(callback, delay), called from the code of
\* jest-jasmine or from a test.
SetTimeout(fromJasmine) ==
  /\ envWindow = "window"
  /\ registered < MaxTasks
  /\ registered' = registered + 1
  /\ IF TimerOwner(isJasmineRunner, fromJasmine) = "node"
     THEN /\ nodeTimers' = nodeTimers \cup {registered + 1}
          /\ UNCHANGED outstanding
     ELSE /\ outstanding' = outstanding \cup {registered + 1}
          /\ UNCHANGED nodeTimers
  /\ lastLedger' = Ledger("setTimeout")
  /\ UNCHANGED <<envWindow, projectConfig, isJasmineRunner, legacyFakeTimers,
                 modernFakeTimers, ownerDocuments, completed, aborted, wait,
                 round, chained, configured, created,
                 suspended, exceptLedger>>

\* A timer of Node fires.
NodeTimerFires(t) ==
  /\ t \in nodeTimers
  /\ nodeTimers' = nodeTimers \ {t}
  /\ lastLedger' = Ledger("nodeTimer")
  /\ UNCHANGED <<envWindow, projectConfig, isJasmineRunner, legacyFakeTimers,
                 modernFakeTimers, ownerDocuments, outstanding, registered,
                 completed, aborted, wait, round, chained, configured, created,
                 suspended, exceptLedger>>

\* Task t of the window completes; its callback may register a successor.
Complete(t, successor) ==
  /\ t \in outstanding
  /\ successor => registered < MaxTasks
  /\ completed' = completed \cup {t}
  /\ outstanding' =
       (outstanding \ {t}) \cup (IF successor THEN {registered + 1} ELSE {})
  /\ registered' = IF successor THEN registered + 1 ELSE registered
  /\ round' = round \ {t}
  /\ chained' = (chained \/ (successor /\ wait = "waiting"))
  /\ lastLedger' = Ledger("complete")
  /\ UNCHANGED <<envWindow, projectConfig, isJasmineRunner, legacyFakeTimers,
                 modernFakeTimers, ownerDocuments, nodeTimers, aborted, wait,
                 configured, created,
                 suspended, exceptLedger>>

CompleteSome == \E t \in Tasks, successor \in BOOLEAN : Complete(t, successor)

\* window.happyDOM.waitUntilComplete(): the first drain round waits for the
\* tasks outstanding now.
WaitUntilComplete ==
  /\ envWindow = "window"
  /\ wait # "waiting"
  /\ wait' = "waiting"
  /\ round' = outstanding
  /\ chained' = FALSE
  /\ lastLedger' = Ledger("waitUntilComplete")
  /\ UNCHANGED <<envWindow, projectConfig, isJasmineRunner, legacyFakeTimers,
                 modernFakeTimers, ownerDocuments, outstanding, nodeTimers,
                 registered, completed, aborted, configured, created,
                 suspended, exceptLedger>>

\* The end of a drain round of waitUntilComplete(): it resolves at a fixed
\* point and starts another round otherwise.
Recheck ==
  /\ wait = "waiting"
  /\ round = {}
  /\ IF FixedPoint(outstanding)
     THEN wait' = "resolved" /\ UNCHANGED round
     ELSE round' = outstanding /\ UNCHANGED wait
  /\ lastLedger' = Ledger("recheck")
  /\ UNCHANGED <<envWindow, projectConfig, isJasmineRunner, legacyFakeTimers,
                 modernFakeTimers, ownerDocuments, outstanding, nodeTimers,
                 registered, completed, aborted, chained, configured, created,
                 suspended, exceptLedger>>

\* What abort() does to the window: every task is discarded at once.
Aborted ==
  /\ outstanding' = {}
  /\ round' = {}
  /\ aborted' = TRUE
  /\ UNCHANGED <<completed, registered, nodeTimers, wait, chained>>

\* window.happyDOM.abort(), called by a test.
Abort ==
  /\ envWindow = "window"
  /\ Aborted
  /\ lastLedger' = [Ledger("abort") EXCEPT !.log = <<"abort">>,
                                           !.discarded = outstanding]
  /\ UNCHANGED <<envWindow, projectConfig, isJasmineRunner, legacyFakeTimers,
                 modernFakeTimers, ownerDocuments, configured, created,
                 suspended, exceptLedger>>

\* A getter that does not look at this._projectConfig.
GetterCreatesWhenNull(field, config) == field = "null"

\* Whether a getter creates the timers: if (!this._legacyFakeTimers &&
\* this._projectConfig).
GetterCreates(field, config) == field = "null" /\ config

\* The getter fakeTimers, the getter fakeTimersModern.
FakeTimers ==
  /\ envWindow # None
  /\ GetterCreates(legacyFakeTimers, projectConfig) =>
       createdLegacy < MaxCreated
  /\ IF GetterCreates(legacyFakeTimers, projectConfig)
     THEN legacyFakeTimers' = "legacy" /\ createdLegacy' = createdLegacy + 1
     ELSE UNCHANGED <<legacyFakeTimers, createdLegacy>>
  /\ lastLedger' = Ledger("fakeTimers")
  /\ UNCHANGED <<envWindow, projectConfig, isJasmineRunner, modernFakeTimers,
                 ownerDocuments, outstanding, nodeTimers, registered,
                 completed, aborted, wait, round, chained, configured,
                 createdModern, suspended, exceptLedger>>

FakeTimersModern ==
  /\ envWindow # None
  /\ GetterCreates(modernFakeTimers, projectConfig) =>
       createdModern < MaxCreated
  /\ IF GetterCreates(modernFakeTimers, projectConfig)
     THEN modernFakeTimers' = "modern" /\ createdModern' = createdModern + 1
     ELSE UNCHANGED <<modernFakeTimers, createdModern>>
  /\ lastLedger' = Ledger("fakeTimersModern")
  /\ UNCHANGED <<envWindow, projectConfig, isJasmineRunner, legacyFakeTimers,
                 ownerDocuments, outstanding, nodeTimers, registered,
                 completed, aborted, wait, round, chained, configured,
                 createdLegacy, suspended, exceptLedger>>

\* The setters: environment.fakeTimers = value and
\* environment.fakeTimersModern = value, with null or with timers of the
\* caller.
SetFakeTimers(value) ==
  /\ envWindow # None
  /\ legacyFakeTimers' = value
  /\ lastLedger' = Ledger("set fakeTimers")
  /\ UNCHANGED <<envWindow, projectConfig, isJasmineRunner, modernFakeTimers,
                 ownerDocuments, outstanding, nodeTimers, registered,
                 completed, aborted, wait, round, chained, configured,
                 created, suspended, exceptLedger>>

SetFakeTimersModern(value) ==
  /\ envWindow # None
  /\ modernFakeTimers' = value
  /\ lastLedger' = Ledger("set fakeTimersModern")
  /\ UNCHANGED <<envWindow, projectConfig, isJasmineRunner, legacyFakeTimers,
                 ownerDocuments, outstanding, nodeTimers, registered,
                 completed, aborted, wait, round, chained, configured,
                 created, suspended, exceptLedger>>

\* A node is created in the window: its document is pushed on
\* NodeFactory.ownerDocuments and, as the comment in teardown() tells, not
\* always pulled.
CreateTextNode ==
  /\ envWindow = "window"
  /\ ownerDocuments < MaxDocuments
  /\ ownerDocuments' = ownerDocuments + 1
  /\ lastLedger' = Ledger("createTextNode")
  /\ UNCHANGED <<envWindow, projectConfig, isJasmineRunner, legacyFakeTimers,
                 modernFakeTimers, outstanding, nodeTimers, registered,
                 completed, aborted, wait, round, chained, configured, created,
                 suspended, exceptLedger>>

\* The calls of teardown() that wait for abort() at one time.
MaxSuspended == 2

\* Lines 208-222 of teardown(): the references are set to null and
\* NodeFactory.ownerDocuments is emptied.
Nulled ==
  /\ envWindow' = "null"
  /\ legacyFakeTimers' = "null"
  /\ modernFakeTimers' = "null"
  /\ projectConfig' = FALSE
  /\ ownerDocuments' = 0

\* environment.teardown(), up to its await: it disposes the timers the
\* fields hold and, when this.window is set, calls abort() on the window and
\* is suspended until the promise of abort() settles, with every field as it
\* was.  When this.window is null there is no await and the call runs to
\* its end.  Aborting a window that is null is a TypeError, which ends the
\* call.
Teardown ==
  /\ envWindow # None
  /\ IF TeardownAborts(envWindow) /\ envWindow # "window"
     THEN /\ lastLedger' =
               [op |-> "teardown",
                log |-> TeardownLog(legacyFakeTimers, modernFakeTimers,
                                    envWindow),
                discarded |-> {},
                error |-> "TypeError"]
          /\ UNCHANGED <<envWindow, projectConfig, legacyFakeTimers,
                         modernFakeTimers, ownerDocuments, outstanding,
                         round, aborted, completed, registered, nodeTimers,
                         wait, chained, suspended>>
     ELSE /\ lastLedger' =
               [op |-> "teardown",
                log |-> TeardownLog(legacyFakeTimers, modernFakeTimers,
                                    envWindow),
                discarded |-> IF TeardownAborts(envWindow) THEN outstanding
                              ELSE {},
                error |-> None]
          /\ IF TeardownAborts(envWindow)
             THEN /\ suspended < MaxSuspended
                  /\ Aborted
                  /\ suspended' = suspended + 1
                  /\ UNCHANGED <<envWindow, projectConfig, legacyFakeTimers,
                                 modernFakeTimers, ownerDocuments>>
             ELSE /\ Nulled
                  /\ UNCHANGED <<outstanding, round, aborted, completed,
                                 registered, nodeTimers, wait, chained,
                                 suspended>>
  /\ UNCHANGED <<isJasmineRunner, configured, created,
                 exceptLedger>>

\* A suspended teardown() goes on after its await: lines 208-222.
TeardownResumes ==
  /\ suspended > 0
  /\ suspended' = suspended - 1
  /\ Nulled
  /\ lastLedger' = Ledger("teardown resumes")
  /\ UNCHANGED <<isJasmineRunner, outstanding, nodeTimers, registered,
                 completed, aborted, wait, round, chained, configured,
                 created, exceptLedger>>

LedgerNext ==
  \/ \E jasmine \in BOOLEAN : NewEnvironment(jasmine, NoOption)
  \/ \E fromJasmine \in BOOLEAN : SetTimeout(fromJasmine)
  \/ \E t \in Tasks : NodeTimerFires(t)
  \/ CompleteSome
  \/ WaitUntilComplete
  \/ Recheck
  \/ Abort
  \/ FakeTimers
  \/ FakeTimersModern
  \/ CreateTextNode
  \/ Teardown
  \/ TeardownResumes

\* The calls on the environment alone.
EnvironmentNext ==
  \/ \E jasmine \in BOOLEAN, option \in ExportOptions :
       NewEnvironment(jasmine, option)
  \/ FakeTimers
  \/ FakeTimersModern
  \/ \E value \in {"null", "given"} : SetFakeTimers(value)
  \/ \E value \in {"null", "given"} : SetFakeTimersModern(value)
  \/ Teardown
  \/ TeardownResumes

(***************************************************************************)
(*            PART 7: the listener registry and event dispatch             *)
(***************************************************************************)
\* The registrations the registries hold at a time, and the depth to which
\* listeners dispatch from inside a dispatch.
MaxListeners == 3
MaxNesting == 1

\* The propagation path, root first; its last node is the target.
Path == <<"doc", "div">>
EventNodes == {Path[i] : i \in 1..Len(Path)}
Target == Path[Len(Path)]
EventType == "click"

\* What a handler does when it is invoked: nothing more, stopPropagation(),
\* stopImmediatePropagation(), throw, or dispatch another event of the type
\* on the target.
Handlers == {"plain", "stop", "stopNow", "throws", "again"}
OnceHandlers == {"plain", "again"}

\* A getter of LazyListenerMap that answers with the capturing Map for both
\* lists.
ListenerFieldCapturingOnly(capture) == "capturing"

\* The getter addEventListener and removeEventListener go through.
ListenerField(capture) == IF capture THEN "capturing" ELSE "bubbling"

\* map.get(type) ?? []
ListOf(m, type) ==
  IF MapHas(m, type) THEN (CHOOSE e \in m.entries : e[1] = type)[2] ELSE <<>>

Position(list, h) == CHOOSE i \in 1..Len(list) : list[i] = h
Without(list, i) == SubSeq(list, 1, i - 1) \o SubSeq(list, i + 1, Len(list))

\* The registrations of the list f of node n: handler and options, in
\* registration order.
Registrations(lm, om, n, f) ==
  LET list == ListOf(lm[n][f], EventType)
      opts == ListOf(om[n][f], EventType)
  IN  [i \in 1..Len(list) |->
         [node |-> n, list |-> f, h |-> list[i], once |-> opts[i].once]]

IsRegistered(lm, n, f, h) ==
  \E i \in 1..Len(ListOf(lm[n][f], EventType)) :
    ListOf(lm[n][f], EventType)[i] = h

RECURSIVE TotalFrom(_, _)
TotalFrom(lm, i) ==
  IF i > Len(Path) THEN 0
  ELSE Len(ListOf(lm[Path[i]]["capturing"], EventType))
         + Len(ListOf(lm[Path[i]]["bubbling"], EventType))
         + TotalFrom(lm, i + 1)
TotalListeners(lm) == TotalFrom(lm, 1)

\* An addEventListener that appends whether or not the handler is there.
AddedAlways(flds, type, f, value, present) ==
  LET got == Getter(flds, f)
  IN  [got EXCEPT ![f] = MapSet(@, type, Append(ListOf(@, type), value))]

\* The listener Maps, or the option Maps, of a node after
\* addEventListener(type, h, options) put value in the list f at the place
\* of the handler; present tells whether the handler is in the list already.
Added(flds, type, f, value, present) ==
  LET got == Getter(flds, f)
  IN  IF present THEN got
      ELSE [got EXCEPT ![f] = MapSet(@, type, Append(ListOf(@, type), value))]

\* A removal that leaves the entry in the list.
RemovedNothing(flds, type, f, i) == flds

\* The Maps of a node after removeEventListener took entry i from the list f.
Removed(flds, type, f, i) ==
  LET list == Without(ListOf(flds[f], type), i)
  IN  [flds EXCEPT ![f] = IF list = <<>> THEN MapDelete(@, type)
                          ELSE MapSet(@, type, list)]

\* A dispatch that ends when a listener throws.
ContinuesUnlessThrown(thrown) == ~thrown

\* Errors are caught per listener: the dispatch goes on.
Continues(thrown) == TRUE

\* A stopPropagation() that acts as stopImmediatePropagation() does.
HaltsWithinNodeOnStop(ev) == ev.stop

\* Whether the dispatch moves on to no further node, and to no further
\* listener of the node.
HaltsBetweenNodes(ev) == ev.stop
HaltsWithinNode(ev) == ev.stopNow

\* new Event(type).
NewEvent == [stop |-> FALSE, stopNow |-> FALSE]

\* The nodes a dispatch on the target visits with the lists it invokes at
\* each: capture from the root, both lists at the target, bubble to the root.
Visits ==
  [i \in 1..(Len(Path) - 1) |-> [node |-> Path[i], lists |-> <<"capturing">>]]
    \o <<[node |-> Target, lists |-> <<"capturing", "bubbling">>]>>
    \o [i \in 1..(Len(Path) - 1) |->
          [node |-> Path[Len(Path) - i], lists |-> <<"bubbling">>]]

\* The state of a run: the registries, the flags of the event being
\* dispatched, whether the dispatch is over, the invocations so far, the
\* errors reported and the number of dispatches started.
RunState(lm, om, ev) ==
  [lm |-> lm, om |-> om, ev |-> ev, over |-> FALSE, log |-> <<>>,
   errors |-> 0, dispatches |-> 0]

RECURSIVE RunDispatch(_, _, _, _)
RECURSIVE RunVisits(_, _, _, _, _)
RECURSIVE RunLists(_, _, _, _, _, _)
RECURSIVE RunList(_, _, _, _, _, _)

\* The registries after a once listener left them at its invocation.
OnceRemoved(rs, reg) ==
  IF reg.once /\ IsRegistered(rs.lm, reg.node, reg.list, reg.h)
  THEN LET i == Position(ListOf(rs.lm[reg.node][reg.list], EventType),
                         reg.h)
       IN  [rs EXCEPT
              !.lm[reg.node] = Removed(@, EventType, reg.list, i),
              !.om[reg.node] = Removed(@, EventType, reg.list, i)]
  ELSE rs

\* One invocation of the registration reg, which is still registered.  A
\* once listener leaves the registry with its first invocation, so that no
\* dispatch, one started by its own handler included, finds it again: it
\* fires exactly once regardless of dispatch count, and it is gone before
\* the next listener runs.  raises tells whether the throwing handler
\* throws.
Invoke(rs, reg, by, depth, raises) ==
  LET logged ==
        OnceRemoved(
          [rs EXCEPT !.log = Append(@, [node |-> reg.node, list |-> reg.list,
                                        h |-> reg.h, once |-> reg.once,
                                        by |-> by, depth |-> depth])],
          reg)
      thrown == reg.h = "throws" /\ raises
      ran ==
        CASE reg.h = "stop" -> [logged EXCEPT !.ev.stop = TRUE]
          [] reg.h = "stopNow" ->
               [logged EXCEPT !.ev.stop = TRUE, !.ev.stopNow = TRUE]
          [] reg.h = "throws" ->
               [logged EXCEPT !.errors = IF thrown THEN @ + 1 ELSE @,
                              !.over = ~Continues(thrown)]
          [] reg.h = "again" /\ depth < MaxNesting ->
               [RunDispatch(logged, Len(logged.log), depth + 1, raises)
                  EXCEPT !.ev = logged.ev, !.over = logged.over]
          [] OTHER -> logged
  IN  ran

\* The registrations snap of one list, from the j-th on; a registration
\* removed in the meantime is passed over.
RunList(rs, snap, j, by, depth, raises) ==
  IF j > Len(snap) \/ HaltsWithinNode(rs.ev) \/ rs.over THEN rs
  ELSE IF ~IsRegistered(rs.lm, snap[j].node, snap[j].list, snap[j].h)
       THEN RunList(rs, snap, j + 1, by, depth, raises)
       ELSE RunList(Invoke(rs, snap[j], by, depth, raises), snap, j + 1,
                    by, depth, raises)

\* The lists of one visit, from the k-th on.
RunLists(rs, visit, k, by, depth, raises) ==
  IF k > Len(visit.lists) THEN rs
  ELSE RunLists(RunList(rs,
                        Registrations(rs.lm, rs.om, visit.node,
                                      visit.lists[k]),
                        1, by, depth, raises),
                visit, k + 1, by, depth, raises)

\* The visits from the i-th on: propagation stops between nodes.
RunVisits(rs, i, by, depth, raises) ==
  IF i > Len(Visits) \/ HaltsBetweenNodes(rs.ev) \/ rs.over THEN rs
  ELSE RunVisits(RunLists(rs, Visits[i], 1, by, depth, raises), i + 1,
                 by, depth, raises)

\* dispatchEvent(new Event(type)) on the target, with the registries in rs.
RunDispatch(rs, by, depth, raises) ==
  RunVisits([rs EXCEPT !.dispatches = @ + 1, !.ev = NewEvent],
            1, by, depth, raises)

EventInit ==
  /\ listenerMap = [n \in EventNodes |-> [f \in ListenerMapFields |-> NullMap]]
  /\ optionsMap = [n \in EventNodes |-> [f \in ListenerMapFields |-> NullMap]]
  /\ lastEvent = [op |-> "", capture |-> FALSE, known |-> FALSE,
                  log |-> <<>>, errors |-> 0]

\* n.addEventListener(type, h, {capture, once}).
AddEventListener(n, h, capture, once) ==
  LET f == ListenerField(capture)
      present == IsRegistered(listenerMap, n, f, h)
  IN  /\ present \/ TotalListeners(listenerMap) < MaxListeners
      /\ listenerMap' =
           [listenerMap EXCEPT ![n] = Added(@, EventType, f, h, present)]
      /\ optionsMap' =
           [optionsMap EXCEPT
              ![n] = Added(@, EventType, f, [once |-> once], present)]
      /\ lastEvent' = [op |-> "addEventListener", capture |-> capture,
                       known |-> present, log |-> <<>>, errors |-> 0]
      /\ UNCHANGED exceptEvents

\* n.removeEventListener(type, h, {capture}).
RemoveEventListener(n, h, capture) ==
  LET f == ListenerField(capture)
      list == ListOf(listenerMap[n][f], EventType)
  IN  /\ IsRegistered(listenerMap, n, f, h)
      /\ listenerMap' =
           [listenerMap EXCEPT
              ![n] = Removed(@, EventType, f, Position(list, h))]
      /\ optionsMap' =
           [optionsMap EXCEPT
              ![n] = Removed(@, EventType, f, Position(list, h))]
      /\ lastEvent' =
           [op |-> "removeEventListener", capture |-> FALSE,
            known |-> TRUE, log |-> <<>>, errors |-> 0]
      /\ UNCHANGED exceptEvents

\* target.dispatchEvent(new Event(type)): every dispatch is of a new event.
DispatchEvent ==
  LET ran ==
        RunDispatch(RunState(listenerMap, optionsMap, NewEvent), 0, 0, TRUE)
  IN  /\ listenerMap' = ran.lm
      /\ optionsMap' = ran.om
      /\ lastEvent' =
           [op |-> "dispatchEvent", capture |-> FALSE, known |-> FALSE,
            log |-> ran.log, errors |-> ran.errors]
      /\ UNCHANGED exceptEvents

EventsNext ==
  \/ \E n \in EventNodes, h \in Handlers, capture \in BOOLEAN,
        once \in BOOLEAN :
       (once => h \in OnceHandlers) /\ AddEventListener(n, h, capture, once)
  \/ \E n \in EventNodes, h \in Handlers, capture \in BOOLEAN :
       RemoveEventListener(n, h, capture)
  \/ DispatchEvent

(***************************************************************************)
(* Specifications: one per part; the other parts stay as constructed.      *)
(***************************************************************************)
vars ==
  <<binderVars, storageVars, lazyVars, queryVars, stringVars, ledgerVars,
    eventVars>>

\* Outside SpecLazy the lazy object is a NodeCache nobody uses.
Init ==
  /\ BinderInit /\ StorageInit /\ LazyInit /\ kind = "NodeCache" /\ QueryInit
  /\ StringInit /\ LedgerInit /\ EventInit

Next == BinderNext
Spec == Init /\ [][Next]_vars

SpecStorage == Init /\ [][StorageNext]_vars

\* Under SpecLazy the lazy object is of any of the four classes.
InitLazy ==
  /\ BinderInit /\ StorageInit /\ LazyInit /\ QueryInit
  /\ StringInit /\ LedgerInit /\ EventInit

SpecLazy == InitLazy /\ [][LazyNext]_vars

SpecQuery == Init /\ [][QueryNext]_vars

SpecString == Init /\ [][StringNext]_vars

SpecLedger == Init /\ [][LedgerNext]_vars

SpecEvents == Init /\ [][EventsNext]_vars

SpecEnvironment == Init /\ [][EnvironmentNext]_vars

\* Tasks of the ledger do complete, and waitUntilComplete() does act on the
\* end of a drain round.
SpecLedgerFair ==
  Init /\ [][LedgerNext]_vars /\ WF_vars(CompleteSome) /\ WF_vars(Recheck)

(***************************************************************************)
(* Properties of createWindowAwareClass.                                   *)
(***************************************************************************)

Top == stack[Len(stack)]

\* C1 (as claimed): for every finished construction, returned or thrown, the
\* window read from the class's prototype right after it equals the one read
\* right before it began.
C1_RestoredAfterConstruction ==
  last.cls # None => last.after = last.before

\* C2: when constructions only ever follow one another, each instance carries
\* the window of the wrapper that made it and, with no construction in
\* progress, no class prototype carries a window.
C2_SequentialConstructions ==
  (~nested /\ stack = <<>>) =>
    /\ \A c \in Classes : PrototypeGet(proto, c) = None
    /\ \A k \in 1..Len(instances) :
         InstanceWindow(instances[k].inst, proto) = instances[k].by

\* The same class constructed under W1 and then under W2, one after the
\* other.
C2_Witness ==
  /\ ~nested
  /\ stack = <<>>
  /\ Len(instances) = 2
  /\ instances[1].inst.cls = instances[2].inst.cls
  /\ instances[1].by = "W1"
  /\ instances[2].by = "W2"

\* C3 (as claimed): at every point, every instance, under construction or
\* finished, shows the window of the construction that creates it.
C3_NoContextLeak ==
  /\ \A k \in 1..Len(stack) :
       PrototypeGet(proto, stack[k].cls) = stack[k].window
  /\ \A k \in 1..Len(instances) :
       InstanceWindow(instances[k].inst, proto) = instances[k].by

\* C4 (as claimed): once no construction is in progress, no class prototype
\* holds a window of its own.
C4_NoWindowLeftOnPrototypes ==
  stack = <<>> => \A c \in Classes : proto[c] = None

\* C5: the constructor running in the innermost construct trap reads the
\* window of that trap's wrapper through the prototype.
C5_ConstructorSeesWindow ==
  stack # <<>> => PrototypeGet(proto, Top.cls) = Top.window

\* A constructor is running again after a nested construction of the same
\* class under another window has finished.
C5_Witness ==
  /\ Len(stack) = 1
  /\ last.cls = Top.cls
  /\ last.window # Top.window
  /\ last.before = Top.window

\* C6: every returned instance has the window of its wrapper as an own
\* property and that wrapper as its constructor, in every later state.
C6_InstanceStamped ==
  \A k \in 1..Len(instances) :
    LET i == instances[k] IN
      /\ i.inst.window = i.by
      /\ InstanceWindow(i.inst, proto) = i.by
      /\ i.inst.constructor = Proxy(i.inst.cls, i.by)

\* An instance made under one window, a later construction of its class
\* under the other window in progress or finished.
C6_Witness ==
  \E k \in 1..Len(instances) :
    /\ \/ \E j \in (k+1)..Len(instances) :
            /\ instances[j].inst.cls = instances[k].inst.cls
            /\ instances[j].by # instances[k].by
            /\ proto[instances[k].inst.cls] = None
       \/ /\ stack # <<>>
          /\ Top.cls = instances[k].inst.cls
          /\ Top.window # instances[k].by

\* C7: the window read on the wrapper of a class registered with the static
\* override is the wrapper's window whatever the prototypes hold; without
\* the override the read is the implementation class's own static.
C7_StaticWindow ==
  \A c \in Classes, w \in Windows :
    /\ setStaticWindow(c) => StaticGet(statics, c, w) = w
    /\ ~setStaticWindow(c) =>
         StaticGet(statics, c, w) = ImplementationStatic(statics, c)

\* Response is being constructed under W2 while W1's wrapper is read.
C7_Witness ==
  /\ stack # <<>>
  /\ Top.cls = "Response"
  /\ Top.window = "W2"
  /\ proto["Response"] = "W2"
  /\ StaticGet(statics, "Response", "W1") = "W1"

(***************************************************************************)
(* Properties of Storage.  They are checked under SpecStorage.             *)
(***************************************************************************)

\* What the store itself provides under the member name m.
OwnBehaviour(d, m) ==
  IF m = "length" THEN Length(d) ELSE Bind(Fn("Storage.prototype." \o m))

\* A result that stands for "nothing there".
NullResult(x) == x \in {Null, Undefined}

\* C8 (as claimed): read as properties, the six member names always give the
\* store's own length and methods.
C8_MembersAlwaysOwn ==
  \A m \in Members : ProxyGet(own, data, m) = OwnBehaviour(data, m)

\* C8 (amended): a member name that has not been redefined on the store with
\* Object.defineProperty gives the store's own length or method, whatever
\* keys are stored; after setItem('length', text) the length property is the
\* number of entries and getItem('length') is that text.
C8_MembersOwnUnlessRedefined ==
  /\ \A m \in Members :
       (m \in Names => own[m] = Absent) =>
         ProxyGet(own, data, m) = OwnBehaviour(data, m)
  /\ (written.name = "length" /\ own["length"] = Absent) =>
       /\ ProxyGet(own, data, "length") = Num(Len(data))
       /\ GetItem(data, "length") = Str(written.text)

\* setItem('length', 'x') has stored the key length beside another key.
C8_Witness ==
  /\ written = [name |-> "length", text |-> "x"]
  /\ HasOwn(data, "length")
  /\ Len(data) = 2
  /\ own["length"] = Absent
  /\ ProxyGet(own, data, "length") = Num(2)
  /\ GetItem(data, "length") = Str("x")

\* C9 (as claimed): for every name, getItem gives the text of the latest
\* setItem of that name for as long as the name is not written again,
\* removed or cleared.
C9_SetItemThenGetItem ==
  written # NoWrite => GetItem(data, written.name) = Str(written.text)

\* C10 (as claimed): for every name that is not stored, getItem and a
\* property read both give a null result.  Member names, which a property
\* read resolves to the store itself, are left out.
C10_AbsentIsNull ==
  \A k \in Names \ Members :
    ~HasOwn(data, k) =>
      /\ NullResult(GetItem(data, k))
      /\ NullResult(ProxyGet(own, data, k))

\* C11 (as claimed): key(i) is the i-th stored key in order of insertion for
\* 0 <= i < length, whatever the key names look like, and null for any
\* other index.
C11_KeyInInsertionOrder ==
  \A i \in -1..(MaxEntries + 1) :
    Key(data, i) =
      IF i >= 0 /\ i < Len(order) THEN Str(order[i + 1]) ELSE Null

\* C12 (as claimed): for every name that is not one of the six members,
\* writing, reading, deleting, testing and enumerating through the proxy do
\* what setItem, getItem, removeItem and the stored keys say.
C12_DynamicKeysAsMethods ==
  /\ \A k \in Names \ Members :
       /\ \A v \in Items :
            SetTrap(own, data, k, v) = SetItemData(data, k, v)
       /\ \/ ProxyGet(own, data, k) = GetItem(data, k)
          \/ NullResult(ProxyGet(own, data, k)) /\ NullResult(GetItem(data, k))
       /\ DeletePropertyTrap(data, k) = RemoveItemData(data, k)
       /\ HasTrap(own, data, k) <=> HasOwn(data, k)
  /\ OwnKeysTrap(data) = order

\* C13 (as claimed): a step of clear() leaves length 0, key(i) null for every
\* i and getItem(k) null for every k that was stored before it.
C13_AfterClear ==
  [][Clear =>
       /\ Length(data') = Num(0)
       /\ \A i \in -1..MaxEntries : Key(data', i) = Null
       /\ \A k \in KeySet(data) : GetItem(data', k) = Null]_vars

(***************************************************************************)
(* Properties of the lazily created Maps.  They are checked under SpecLazy. *)
(***************************************************************************)

\* C16: after NodeCache.clear() the seven Maps are null and computedStyle is
\* null, hasData is false and no lookup hits; a key hits again only after
\* a store into its Map.
C16_ClearDiscardsEverything ==
  [][kind = "NodeCache" =>
       /\ lastCall'.op = "clear" =>
            /\ \A f \in NodeCacheFields : fields'[f] = NullMap
            /\ ~computedStyle'
            /\ ~HasData(fields', computedStyle')
            /\ \A f \in NodeCacheFields, key \in MapKeys :
                 ~Hit(fields', f, key)
       /\ \A f \in NodeCacheFields :
            fields'[f].entries # fields[f].entries =>
              \A key \in MapKeys :
                ~Hit(fields, f, key) /\ Hit(fields', f, key) =>
                  lastCall'.op = "set" /\ f \in lastCall'.accessed]_vars

\* A NodeCache whose Maps held entries was cleared.
C16_Witness ==
  /\ kind = "NodeCache"
  /\ lastCall.op = "clear"
  /\ lastCall.had # {}

\* C17 (as claimed): a new object has no Map; an attribute store on which
\* no attribute was set has none of its three views, whatever else was
\* called on it; a field goes from null to a Map only in a call that goes
\* through the getter or setter of that very field.
C17_NothingCreatedUnused ==
  /\ [](lastCall.op = "new" => Allocated(fields) = {})
  /\ [][/\ (/\ kind = "LazyNamedNodeMapData"
             /\ Allocated(fields) = {}
             /\ lastCall'.op # "setNamedItem") => Allocated(fields') = {}
        /\ \A f \in FieldsOf(kind) :
             ~fields[f].alloc /\ fields'[f].alloc =>
               f \in lastCall'.accessed]_vars

\* C17 (amended): a new object has no Map; an attribute store on which no
\* attribute was set and no view was read or assigned through its accessor
\* has none of its three views: hasItems, clear() and the removal of an
\* attribute leave it so.  A field goes from null to a Map only in a call
\* that goes through the getter or setter of that very field, so hasItems,
\* hasData and clear() create nothing and the getter of one field creates no
\* other.
C17_NothingCreatedUnasked ==
  /\ [](lastCall.op = "new" => Allocated(fields) = {})
  /\ [][/\ (/\ kind = "LazyNamedNodeMapData"
             /\ Allocated(fields) = {}
             /\ lastCall'.op \notin {"setNamedItem", "get", "assign"}) =>
               Allocated(fields') = {}
        /\ \A f \in FieldsOf(kind) :
             ~fields[f].alloc /\ fields'[f].alloc =>
               f \in lastCall'.accessed
        /\ lastCall'.op \in {"has", "clear"} =>
             Allocated(fields') \subseteq Allocated(fields)]_vars

\* An attribute was removed from an attribute store that never held one:
\* none of its views exists.
C17_Witness ==
  /\ kind = "LazyNamedNodeMapData"
  /\ lastCall.op = "removeNamedItem"
  /\ lastCall.accessed = {}
  /\ Allocated(fields) = {}

\* C18 (as claimed): after clear() on any of the four objects every
\* container is back to absent.
C18_ClearReleases ==
  lastCall.op = "clear" => \A f \in FieldsOf(kind) : ~fields[f].alloc

\* C19 (as claimed): a lookup leaves every absent container absent.
C19_LookupLeavesAbsent ==
  [][lastCall'.op = "get" =>
       \A f \in FieldsOf(kind) : ~fields[f].alloc => ~fields'[f].alloc]_vars

\* C19 (amended): an absent container is created by the first call that goes
\* through its getter, a lookup as much as a store: after a lookup on an
\* absent container the container is an empty Map.  hasData, hasItems and
\* clear() leave an absent container absent.
C19_CreatedOnFirstAccess ==
  [][\A f \in FieldsOf(kind) :
       ~fields[f].alloc =>
         /\ lastCall'.op \in {"get", "set", "delete", "setNamedItem",
                              "removeNamedItem"} /\ f \in lastCall'.accessed
              => fields'[f].alloc
         /\ lastCall'.op = "get" /\ f \in lastCall'.accessed
              => fields'[f] = NewMap
         /\ lastCall'.op \in {"has", "clear"} => ~fields'[f].alloc]_vars

\* A lookup ran on a container that was absent: it is an empty Map now.
C19_Witness ==
  /\ lastCall.op = "get"
  /\ lastCall.had = {}
  /\ \A f \in lastCall.accessed : fields[f] = NewMap

\* The three views hold the same Attr objects.
InStep(flds) ==
  \A a \in AttrObjects :
    /\ <<a.name, a.obj>> \in flds["items"].entries
         <=> <<a.local, a.obj>> \in flds["itemsByName"].entries
    /\ <<a.name, a.obj>> \in flds["items"].entries
         <=> <<a.nsKey, a.obj>> \in flds["itemsByNamespaceURI"].entries

\* C20 (as claimed): an Attr is in the qualified-name view exactly when it is
\* in the by-local-name view and in the by-namespace-URI view, whatever
\* operation of the attribute store ran.
C20_ViewsInStep ==
  kind = "LazyNamedNodeMapData" =>
    \A a \in AttrObjects :
      /\ <<a.name, a.obj>> \in fields["items"].entries
           <=> <<a.local, a.obj>> \in fields["itemsByName"].entries
      /\ <<a.name, a.obj>> \in fields["items"].entries
           <=> <<a.nsKey, a.obj>> \in fields["itemsByNamespaceURI"].entries

\* C20 (amended): the views of a new attribute store are in step; setting
\* and removing an attribute, a lookup, hasItems and clear() keep views that
\* are in step in step, and clear() puts them in step whatever they were.
\* Only the setter of a view, which replaces that view alone, can leave them
\* out of step.
C20_ViewsInStepUnlessAssigned ==
  /\ [](kind = "LazyNamedNodeMapData" /\ lastCall.op = "new" =>
         InStep(fields))
  /\ [][kind = "LazyNamedNodeMapData" =>
          /\ (InStep(fields) /\ lastCall'.op # "assign") => InStep(fields')
          /\ lastCall'.op = "clear" => InStep(fields')]_vars

\* An attribute was replaced while another one shares its local name, with
\* the three views in step.
C20_Witness ==
  /\ kind = "LazyNamedNodeMapData"
  /\ lastCall.op = "setNamedItem"
  /\ InStep(fields)
  /\ fields["itemsByName"].entries = {<<"id", "id#2">>, <<"id", "x:id#1">>}

(***************************************************************************)
(* Properties of the cached queries.  They are checked under SpecQuery.    *)
(***************************************************************************)

\* C14: querySelectorAll(n, s) returns the matches below n on the current
\* tree in document order, whether it is a repeated call or the first call
\* after an insertion, a removal or an id change, and no cache holds a
\* result that differs from that.
C14_QueryNeverStale ==
  /\ \A n \in Parents, s \in Selectors :
       Hit(cache[n], "querySelectorAll", s) =>
         Cached(cache[n], "querySelectorAll", s)
           = QueryOnTree(children, ids, n, s)
  /\ lastOp.op = "querySelectorAll" =>
       lastOp.result = QueryOnTree(children, ids, lastOp.node, lastOp.key)

\* Three siblings were cached as the result, the middle one was removed, and
\* the query right after returns the other two.
C14_Witness ==
  /\ lastOp.op = "querySelectorAll"
  /\ lastOp.key = ".item"
  /\ lastOp.old = {<<"e1", "e2", "e3">>}
  /\ lastOp.result = <<"e1", "e3">>

\* C15: getElementById(id) returns the first element in document order with
\* that id, or none, after any insertions, removals and id changes.
C15_ElementByIdEarliest ==
  /\ \A i \in Ids :
       Hit(cache["doc"], "elementById", i) =>
         Cached(cache["doc"], "elementById", i) = ByIdOnTree(children, ids, i)
  /\ lastOp.op = "getElementById" =>
       lastOp.result = ByIdOnTree(children, ids, lastOp.key)

\* The cached match was e1; after a removal or an id change the lookup moved
\* on to e2, which is below e1's former position.
C15_Witness ==
  /\ lastOp.op = "getElementById"
  /\ lastOp.old = {<<"e1">>}
  /\ lastOp.result = <<"e2">>

(***************************************************************************)
(* Isolation of windows.  Checked under Spec.                              *)
(***************************************************************************)

\* The window for which a step of the binder runs: the window of the
\* construct trap that is entered or left.
Actor ==
  IF Len(stack') > Len(stack) THEN stack'[Len(stack')].window
  ELSE stack[Len(stack)].window

\* C28 (as claimed): a step made for one window leaves alone what belongs to
\* another window: the window that a construction still in progress under
\* another window reads through its class, and the instances that other
\* window made.
C28_WindowsIsolated ==
  [][stack' # stack =>
       /\ \A k \in 1..Len(stack) :
            k <= Len(stack') /\ stack[k].window # Actor =>
              PrototypeGet(proto', stack[k].cls)
                = PrototypeGet(proto, stack[k].cls)
       /\ \A k \in 1..Len(instances) :
            instances[k].by # Actor =>
              InstanceWindow(instances'[k].inst, proto')
                = InstanceWindow(instances[k].inst, proto)]_vars

(***************************************************************************)
(* Properties of StringUtility.  They are checked under SpecString.        *)
(***************************************************************************)

\* The letters of the texts and their counterparts: A, Z, a and z.
ExpectedLower(value) ==
  CASE value = 65 -> 97 [] value = 90 -> 122 [] OTHER -> value
ExpectedUpper(value) ==
  CASE value = 97 -> 65 [] value = 122 -> 90 [] OTHER -> value

\* C29: whatever the caches hold, asciiLowerCase returns the text with A-Z
\* replaced by a-z and nothing else changed, and asciiUpperCase the text with
\* a-z replaced by A-Z.
C29_ConversionWhateverTheCache ==
  \A text \in Texts :
    /\ Returned(lowerCache, text, LowerText(text))
         = [i \in 1..Len(text) |-> ExpectedLower(text[i])]
    /\ Returned(upperCache, text, UpperText(text))
         = [i \in 1..Len(text) |-> ExpectedUpper(text[i])]

\* A call has just evicted entries; the cache holds some texts (hits) and
\* not others (misses).
C29_Witness ==
  /\ lastConversion.kind = "evict"
  /\ lastConversion.fn = "asciiLowerCase"
  /\ \E text \in Texts : CacheHas(lowerCache, text)
  /\ \E text \in Texts : ~CacheHas(lowerCache, text)

\* C30: no cache ever holds more than CACHE_MAX_SIZE entries; a call that
\* inserts into a full cache leaves it CACHE_EVICT_COUNT entries smaller
\* plus the new one, and a hit leaves the size as it was.
C30_CacheSizeBounded ==
  [][/\ Len(lowerCache') <= CACHE_MAX_SIZE
     /\ Len(upperCache') <= CACHE_MAX_SIZE
     /\ \A text \in Texts :
          /\ asciiLowerCase(text) /\ CacheHas(lowerCache, text) =>
               Len(lowerCache') = Len(lowerCache)
          /\ asciiUpperCase(text) /\ CacheHas(upperCache, text) =>
               Len(upperCache') = Len(upperCache)
          /\ asciiLowerCase(text) /\ ~CacheHas(lowerCache, text)
               /\ Len(lowerCache) >= CACHE_MAX_SIZE =>
               Len(lowerCache') = Len(lowerCache) - CACHE_EVICT_COUNT + 1
          /\ asciiUpperCase(text) /\ ~CacheHas(upperCache, text)
               /\ Len(upperCache) >= CACHE_MAX_SIZE =>
               Len(upperCache') = Len(upperCache) - CACHE_EVICT_COUNT + 1]_vars

\* The upper-case cache is full again after an eviction.
C30_Witness ==
  /\ lastConversion.fn = "asciiUpperCase"
  /\ lastConversion.kind = "miss"
  /\ Len(upperCache) = CACHE_MAX_SIZE
  /\ \E text \in Texts : ~CacheHas(upperCache, text)

(***************************************************************************)
(* Properties of the task ledger.  They are checked under SpecLedger and   *)
(* SpecLedgerFair.                                                         *)
(***************************************************************************)

\* The state of the window that abort() works on.
windowState ==
  <<outstanding, round, aborted, completed, registered, wait, chained>>

\* C26: waitUntilComplete() resolves only when no task is outstanding, the
\* successors registered by completing tasks included; when tasks complete
\* and the end of a drain round is acted on, each under weak fairness, a
\* waiting call does resolve.
C26_ResolvesAtFixedPoint ==
  /\ [][wait' = "resolved" /\ wait = "waiting" =>
          outstanding = {} /\ outstanding' = {}]_vars
  /\ (wait = "waiting" ~> wait = "resolved")

\* A call resolved after the completion of a task registered a successor
\* while it waited.
C26_Witness ==
  /\ wait = "resolved"
  /\ chained
  /\ Cardinality(completed) >= 2
  /\ ~aborted

\* C27: abort(), called by a test or by teardown(), leaves the ledger empty
\* and lets no task complete, however many are outstanding; with nothing
\* outstanding it leaves the ledger as it is, and on a window already aborted
\* the whole window state; no call raises an error, a teardown() of an
\* environment already torn down included, which leaves the window state too.
C27_AbortDiscardsAndIsIdempotent ==
  [][/\ Abort \/ (Teardown /\ envWindow = "window") =>
          /\ outstanding' = {}
          /\ completed' = completed
          /\ lastLedger'.error = None
          /\ outstanding = {} =>
               <<outstanding, round, completed, registered, wait>>'
                 = <<outstanding, round, completed, registered, wait>>
          /\ aborted /\ outstanding = {} => windowState' = windowState
     /\ Teardown /\ envWindow = "null" =>
          /\ lastLedger'.error = None
          /\ windowState' = windowState]_vars

\* An abort has discarded several tasks, none of which had completed.
C27_Witness ==
  /\ lastLedger.op = "abort"
  /\ Cardinality(lastLedger.discarded) >= 2
  /\ completed = {}
  /\ outstanding = {}
  /\ aborted

(***************************************************************************)
(* Properties of the listener registry.  They are checked under            *)
(* SpecEvents.                                                             *)
(***************************************************************************)

\* The registrations of every list, and the handlers registered.
AllRegistrations(lm, om) ==
  UNION {{Registrations(lm, om, p[1], p[2])[i] :
            i \in 1..Len(Registrations(lm, om, p[1], p[2]))} :
         p \in EventNodes \X ListenerMapFields}

SameRegistration(a, b) ==
  a.node = b.node /\ a.list = b.list /\ a.h = b.h

\* The place in the path of the visit that invokes the list of a node.
VisitOf(node, list) ==
  CHOOSE v \in 1..Len(Visits) :
    /\ Visits[v].node = node
    /\ \E k \in 1..Len(Visits[v].lists) : Visits[v].lists[k] = list

\* C21: no list holds a handler twice: adding a handler to a list that has
\* it changes no list, adding it to a list that lacks it appends it to the
\* list the capture option names, and a dispatch invokes no registration
\* twice, and each exactly once, a handler in both lists of a node once for
\* each, when no handler stops the propagation or dispatches again.
C21_RegisteredOnce ==
  [][/\ \A n \in EventNodes, f \in ListenerMapFields :
          LET list == ListOf(listenerMap'[n][f], EventType)
          IN  /\ \A i, j \in 1..Len(list) : list[i] = list[j] => i = j
              /\ Len(ListOf(optionsMap'[n][f], EventType)) = Len(list)
     /\ lastEvent'.op = "addEventListener" =>
          IF lastEvent'.known
          THEN AllRegistrations(listenerMap', optionsMap')
                 = AllRegistrations(listenerMap, optionsMap)
          ELSE /\ TotalListeners(listenerMap')
                    = TotalListeners(listenerMap) + 1
               /\ \A n \in EventNodes, f \in ListenerMapFields :
                    LET list == ListOf(listenerMap[n][f], EventType)
                        after == ListOf(listenerMap'[n][f], EventType)
                    IN  after # list =>
                          /\ f = (IF lastEvent'.capture THEN "capturing"
                                  ELSE "bubbling")
                          /\ SubSeq(after, 1, Len(list)) = list
                          /\ ~IsRegistered(listenerMap, n, f,
                                           after[Len(after)])
     /\ lastEvent'.op = "dispatchEvent" =>
          LET log == lastEvent'.log
              regs == AllRegistrations(listenerMap, optionsMap)
          IN  /\ \A i, j \in 1..Len(log) :
                   SameRegistration(log[i], log[j])
                     /\ log[i].by = log[j].by => i = j
              /\ (\A r \in regs : r.h \in {"plain", "throws"}) =>
                   \A r \in regs :
                     Cardinality({i \in 1..Len(log) :
                                    SameRegistration(log[i], r)}) = 1]_vars

\* A handler was added again to a list that had it, and is in both lists of
\* the node.
C21_Witness ==
  /\ lastEvent.op = "addEventListener"
  /\ lastEvent.known
  /\ \E n \in EventNodes, h \in Handlers :
       /\ IsRegistered(listenerMap, n, "capturing", h)
       /\ IsRegistered(listenerMap, n, "bubbling", h)

\* C22: a once listener is invoked at most once by a dispatch and the
\* dispatches started from inside it, its own handler's included, and is
\* registered no more afterwards, so that no later dispatch invokes it; when
\* a listener that follows it in the dispatch runs, it is registered no more.
C22_OnceInvokedOnce ==
  [][lastEvent'.op = "dispatchEvent" =>
       LET log == lastEvent'.log
       IN  \A i \in 1..Len(log) :
             log[i].once =>
               /\ IsRegistered(listenerMap, log[i].node, log[i].list,
                               log[i].h)
               /\ ~IsRegistered(listenerMap', log[i].node, log[i].list,
                                log[i].h)
               /\ \A j \in 1..Len(log) :
                    SameRegistration(log[i], log[j]) => i = j]_vars

\* A once listener ran, and a later once listener of its list dispatched
\* again: the dispatch from inside the later listener invoked a listener,
\* neither of the two once listeners.
C22_Witness ==
  /\ lastEvent.op = "dispatchEvent"
  /\ \E i, k, j \in 1..Len(lastEvent.log) :
       /\ i < k /\ k < j
       /\ lastEvent.log[i].once
       /\ lastEvent.log[i].h = "plain"
       /\ lastEvent.log[k].h = "again"
       /\ lastEvent.log[k].once
       /\ lastEvent.log[k].by = lastEvent.log[i].by
       /\ lastEvent.log[k].node = lastEvent.log[i].node
       /\ lastEvent.log[k].list = lastEvent.log[i].list
       /\ lastEvent.log[j].by = k

\* C23: when a capturing listener of the dispatch calls stopPropagation(),
\* the dispatch invokes no listener of a later node, and every listener of
\* the node runs unless one of them stops the propagation immediately; when
\* it calls stopImmediatePropagation(), the dispatch invokes no listener
\* after it.
C23_StopPropagation ==
  [][lastEvent'.op = "dispatchEvent" =>
       LET log == lastEvent'.log
           regs == AllRegistrations(listenerMap, optionsMap)
       IN  \A i \in 1..Len(log) :
             /\ log[i].by = 0 /\ log[i].list = "capturing"
                  /\ log[i].h = "stop" =>
                  /\ \A j \in 1..Len(log) :
                       log[j].by = 0 =>
                         VisitOf(log[j].node, log[j].list)
                           <= VisitOf(log[i].node, log[i].list)
                  /\ (\A r \in regs :
                        r.node = log[i].node => r.h # "stopNow") =>
                       \A r \in regs :
                         VisitOf(r.node, r.list)
                             = VisitOf(log[i].node, log[i].list) =>
                           \E j \in 1..Len(log) : SameRegistration(log[j], r)
             /\ log[i].by = 0 /\ log[i].list = "capturing"
                  /\ log[i].h = "stopNow" =>
                  \A j \in (i + 1)..Len(log) : log[j].by # 0]_vars

\* A capturing listener of the root stopped the propagation, the listener
\* registered after it ran, and the listener of the target did not.
C23_Witness ==
  /\ lastEvent.op = "dispatchEvent"
  /\ Len(lastEvent.log) = 2
  /\ lastEvent.log[1].h = "stop"
  /\ lastEvent.log[1].node = Path[1]
  /\ lastEvent.log[1].list = "capturing"
  /\ lastEvent.log[2].node = Path[1]
  /\ lastEvent.log[2].list = "capturing"
  /\ \E f \in ListenerMapFields, h \in Handlers :
       IsRegistered(listenerMap, Target, f, h)

\* C24: a dispatch invokes the listeners it would invoke if the throwing
\* handler did not throw, in the same order, and reports one error for each
\* invocation that throws.
C24_ErrorsDoNotAbort ==
  [][lastEvent'.op = "dispatchEvent" =>
       /\ lastEvent'.log
            = RunDispatch(RunState(listenerMap, optionsMap, NewEvent),
                          0, 0, FALSE).log
       /\ lastEvent'.errors
            = Cardinality({i \in 1..Len(lastEvent'.log) :
                             lastEvent'.log[i].h = "throws"})]_vars

\* A listener threw, and a listener of a later node ran.
C24_Witness ==
  /\ lastEvent.op = "dispatchEvent"
  /\ lastEvent.errors >= 1
  /\ \E i, j \in 1..Len(lastEvent.log) :
       /\ i < j
       /\ lastEvent.log[i].h = "throws"
       /\ lastEvent.log[j].by = lastEvent.log[i].by
       /\ lastEvent.log[j].node # lastEvent.log[i].node

(***************************************************************************)
(* The order of eviction.  Checked under SpecString.                       *)
(***************************************************************************)

CacheKeys(c) == {c[i].k : i \in 1..Len(c)}

\* The texts whose last use is oldest, as many as an eviction removes.
OldestUsed(use) ==
  {use[i] : i \in 1..(IF CACHE_EVICT_COUNT < Len(use)
                      THEN CACHE_EVICT_COUNT ELSE Len(use))}

\* C31: a call that evicts removes from its cache exactly the texts whose
\* last use, insertion or hit, is oldest, and a call on one cache leaves the
\* other cache and its order as they are.
C31_EvictsLeastRecentlyUsed ==
  [][/\ lastConversion'.fn = "asciiLowerCase" /\ lowerCache' # lowerCache =>
          /\ upperCache' = upperCache
          /\ lastConversion'.kind = "evict" =>
               CacheKeys(lowerCache) \ CacheKeys(lowerCache')
                 = OldestUsed(lowerUse)
          /\ lastConversion'.kind # "evict" =>
               CacheKeys(lowerCache) \subseteq CacheKeys(lowerCache')
     /\ lastConversion'.fn = "asciiUpperCase" /\ upperCache' # upperCache =>
          /\ lowerCache' = lowerCache
          /\ lastConversion'.kind = "evict" =>
               CacheKeys(upperCache) \ CacheKeys(upperCache')
                 = OldestUsed(upperUse)
          /\ lastConversion'.kind # "evict" =>
               CacheKeys(upperCache) \subseteq CacheKeys(upperCache')]_vars

\* An eviction spared the text used last before the call, and the other
\* cache is full.
C31_Witness ==
  /\ lastConversion.fn = "asciiLowerCase"
  /\ lastConversion.kind = "evict"
  /\ Len(lowerCache) = CACHE_MAX_SIZE - CACHE_EVICT_COUNT + 1
  /\ Len(lowerUse) = Len(lowerCache)
  /\ Len(upperCache) = CACHE_MAX_SIZE

(***************************************************************************)
(* hasData of a node cache.  Checked under SpecLazy.                       *)
(***************************************************************************)

\* Whether one of the seven Maps of a node cache holds an entry or the
\* computed style is set.
HoldsSomething(flds, style) ==
  \/ flds["querySelector"].entries # {}
  \/ flds["querySelectorAll"].entries # {}
  \/ flds["matches"].entries # {}
  \/ flds["elementsByTagName"].entries # {}
  \/ flds["elementsByTagNameNS"].entries # {}
  \/ flds["elementByTagName"].entries # {}
  \/ flds["elementById"].entries # {}
  \/ style

\* C32: hasData of a node cache is true exactly when one of the seven Maps
\* holds an entry or the computed style is set; a lookup leaves it false
\* when it was false, and reading it changes neither the Maps nor the
\* computed style.
C32_HasDataIffHolds ==
  [][kind = "NodeCache" =>
       /\ HasData(fields, computedStyle)
            <=> HoldsSomething(fields, computedStyle)
       /\ HasData(fields', computedStyle')
            <=> HoldsSomething(fields', computedStyle')
       /\ lastCall'.op = "get" /\ ~HasData(fields, computedStyle) =>
            ~HasData(fields', computedStyle')
       /\ lastCall'.op = "has" =>
            fields' = fields /\ computedStyle' = computedStyle]_vars

\* A lookup missed in a node cache: it created a Map, and hasData is false.
C32_Witness ==
  /\ kind = "NodeCache"
  /\ lastCall.op = "get"
  /\ lastCall.had = {}
  /\ Allocated(fields) # {}
  /\ ~HasData(fields, computedStyle)

(***************************************************************************)
(* Properties of the Jest environment.  Checked under SpecEnvironment.     *)
(***************************************************************************)

\* C33 (as claimed): exportConditions() of a constructed environment returns
\* the conditions of the option when the option is an array of strings, and
\* customExportConditions otherwise.
C33_ExportConditions ==
  envWindow # None =>
    exportConditions(configuredExportConditions)
      = IF exportOption.in /\ exportOption.array
             /\ \A i \in 1..Len(exportOption.items) :
                  exportOption.items[i].type = "string"
        THEN [i \in 1..Len(exportOption.items) |-> exportOption.items[i].text]
        ELSE <<"node", "node-addons">>

\* Whether x is an element of the sequence log.
Logged(log, x) == \E i \in 1..Len(log) : log[i] = x

\* C34 (as claimed): an environment creates at most one timer of each kind,
\* by a getter and before teardown(); teardown() disposes the timers that
\* were created and no others, all before it aborts the window; after it
\* the getters return null and create nothing.
C34_TimersCreatedOnce ==
  [][/\ createdLegacy' <= 1
     /\ createdModern' <= 1
     /\ created' # created =>
          /\ lastLedger'.op \in {"fakeTimers", "fakeTimersModern"}
          /\ envWindow = "window"
     /\ lastLedger'.op = "teardown" /\ envWindow = "window" =>
          /\ Logged(lastLedger'.log, "disposeLegacy") <=> createdLegacy > 0
          /\ Logged(lastLedger'.log, "disposeModern") <=> createdModern > 0
          /\ lastLedger'.log[Len(lastLedger'.log)] = "abort"
     /\ lastLedger'.op = "fakeTimers" /\ envWindow = "null" =>
          legacyFakeTimers' = "null" /\ created' = created
     /\ lastLedger'.op = "fakeTimersModern" /\ envWindow = "null" =>
          modernFakeTimers' = "null" /\ created' = created]_vars

\* C34 (amended): timers are created by a getter only, while the window is
\* set and when the field holds none; a field that holds timers changes only
\* by its setter or by teardown(); teardown() disposes the timers the fields
\* hold, legacy first, then aborts the window and is suspended with the
\* fields as they were; when it goes on it sets the fields to null, and from
\* then on the getters create nothing and return what the field holds.
C34_TimersCreatedWhenFieldEmpty ==
  [][/\ createdLegacy' # createdLegacy =>
          /\ lastLedger'.op = "fakeTimers"
          /\ envWindow = "window"
          /\ legacyFakeTimers = "null" /\ legacyFakeTimers' = "legacy"
          /\ createdLegacy' = createdLegacy + 1
     /\ createdModern' # createdModern =>
          /\ lastLedger'.op = "fakeTimersModern"
          /\ envWindow = "window"
          /\ modernFakeTimers = "null" /\ modernFakeTimers' = "modern"
          /\ createdModern' = createdModern + 1
     /\ legacyFakeTimers # "null" /\ legacyFakeTimers' # legacyFakeTimers =>
          lastLedger'.op \in {"set fakeTimers", "teardown", "teardown resumes"}
     /\ modernFakeTimers # "null" /\ modernFakeTimers' # modernFakeTimers =>
          lastLedger'.op \in {"set fakeTimersModern", "teardown",
                               "teardown resumes"}
     /\ lastLedger'.op = "teardown" /\ envWindow = "window" =>
          /\ lastLedger'.log
               = (IF legacyFakeTimers = "null" THEN <<>>
                  ELSE <<"disposeLegacy">>)
                 \o (IF modernFakeTimers = "null" THEN <<>>
                     ELSE <<"disposeModern">>)
                 \o <<"abort">>
          /\ legacyFakeTimers' = legacyFakeTimers
          /\ modernFakeTimers' = modernFakeTimers
          /\ projectConfig' /\ envWindow' = "window"
          /\ suspended' = suspended + 1
     /\ (lastLedger'.op = "teardown resumes"
           \/ (lastLedger'.op = "teardown" /\ envWindow = "null")) =>
          /\ legacyFakeTimers' = "null" /\ modernFakeTimers' = "null"
          /\ ~projectConfig' /\ envWindow' = "null"
          /\ created' = created
     /\ lastLedger'.op = "fakeTimers" /\ envWindow = "null" =>
          legacyFakeTimers' = legacyFakeTimers /\ created' = created
     /\ lastLedger'.op = "fakeTimersModern" /\ envWindow = "null" =>
          modernFakeTimers' = modernFakeTimers /\ created' = created]_vars

\* teardown() disposed timers of both kinds, aborted the window and is
\* suspended, the fields still set; the legacy timers it disposed were the
\* second ones the environment created.
C34_Witness ==
  /\ lastLedger.op = "teardown"
  /\ lastLedger.log = <<"disposeLegacy", "disposeModern", "abort">>
  /\ createdLegacy = 2
  /\ createdModern = 1
  /\ suspended = 1
  /\ envWindow = "window"
  /\ legacyFakeTimers = "legacy"

(***************************************************************************)
(* Further properties of Storage.  They are checked under SpecStorage.     *)
(***************************************************************************)

\* C35: a property write whose name is one of the six members of the store
\* reports success and leaves the stored entries, their order and the member
\* as they were: the value is not stored under that name and a read of the
\* name gives what it gave before.
C35_MemberWriteChangesNothing ==
  [][lastTrap'.name \in Members =>
       /\ lastTrap'.returned
       /\ data' = data
       /\ order' = order
       /\ OwnKeysTrap(data') = OwnKeysTrap(data)
       /\ own' = own
       /\ ProxyGet(own', data', lastTrap'.name)
            = ProxyGet(own, data, lastTrap'.name)]_vars

\* storage.length = ... on a store that holds an entry: the write reported
\* success, length is not a key and still reads as the number of entries.
C35_Witness ==
  /\ lastTrap = [name |-> "length", returned |-> TRUE]
  /\ data # <<>>
  /\ ~HasOwn(data, "length")
  /\ own["length"] = Absent
  /\ ProxyGet(own, data, "length") = Num(Len(data))

\* The keys that key(i) enumerates.
EnumeratedKeys(d) ==
  {k \in Names : \E i \in 0..(Len(d) - 1) : Key(d, i) = Str(k)}

\* C36: after every step of setItem, removeItem, clear, a property write or
\* a property delete, length is the number of distinct keys stored, which
\* are the keys key(i) enumerates, and is never negative; setting a key that
\* is stored and removing or deleting one that is not leave it as it was,
\* a newly stored key adds one, a removed one takes one away and clear()
\* leaves it 0.
C36_LengthCountsStoredKeys ==
  /\ [](/\ Length(data) = Num(Cardinality(KeySet(data)))
        /\ Length(data) = Num(Cardinality(EnumeratedKeys(data)))
        /\ Length(data) = Num(Len(order))
        /\ Length(data) \in {Num(n) : n \in 0..MaxEntries})
  /\ [][/\ \A k \in Names :
            /\ (/\ HasOwn(data, k)
                /\ \E v \in Items :
                     \/ data' = SetItemData(data, k, v)
                     \/ data' = SetTrap(own, data, k, v)) =>
                 Length(data') = Length(data)
            /\ (/\ ~HasOwn(data, k)
                /\ \/ data' = RemoveItemData(data, k)
                   \/ data' = DeletePropertyTrap(data, k)) =>
                 Length(data') = Length(data)
            /\ (~HasOwn(data, k) /\ HasOwn(data', k)) =>
                 Len(data') = Len(data) + 1
            /\ (HasOwn(data, k) /\ ~HasOwn(data', k) /\ data' # <<>>) =>
                 Len(data') = Len(data) - 1
       /\ (written' = NoWrite /\ order' = <<>>) => Length(data') = Num(0)]_vars

\* Two keys are stored, one by setItem and one by a property write.
C36_Witness ==
  /\ Length(data) = Num(2)
  /\ written # NoWrite
  /\ HasOwn(data, written.name)
  /\ lastTrap.name # written.name
  /\ HasOwn(data, lastTrap.name)

====
